---- MODULE Spec2Model ----
(***************************************************************************)
(* The Comfy metadata processor (src/src/utils/metadata/comfy.metadata.ts) *)
(* as a state machine: canParse, parse (one step per phase of the handler, *)
(* one step per node of the sweep) and encode.                             *)
(*                                                                         *)
(* JavaScript values are tagged records; strings are sequences of          *)
(* characters, so that JSON text is parsed and printed character by        *)
(* character.  Numbers are fixed-point, in units of 1/Scale.               *)
(***************************************************************************)
EXTENDS Integers, Sequences, FiniteSets, TLC

(***************************************************************************)
(* Bounds of the model.                                                    *)
(***************************************************************************)
\* The most nodes drawn for a graph of samplers and latent images.
MaxNodes == 3
\* The most loader nodes drawn for a graph.
MaxLoaders == 2
\* The most conditioning nodes drawn for a graph.
MaxTexts == 2
\* The nesting depth of the generated workflow documents.
MaxDepth == 2
\* The most entries drawn for the ckpt_airs list of a workflow.
MaxAirs == 2
\* The most nodes drawn for a graph of wired inputs.
MaxWired == 2
\* The most nodes drawn for a graph with reference cycles.
MaxCycle == 2
\* Fixed-point unit of numbers: the number 1 is Scale, 0.0001 is 1.
Scale == 10 * 10 * 10 * 10

(***************************************************************************)
(* JavaScript values.                                                      *)
(***************************************************************************)
Undef == [t |-> "undef"]
Null == [t |-> "null"]
NaN == [t |-> "nan"]
Bool(b) == [t |-> "bool", v |-> b]
Num(n) == [t |-> "num", v |-> n]
Whole(n) == [t |-> "num", v |-> n * Scale]
Str(s) == [t |-> "str", v |-> s]
Arr(vs) == [t |-> "arr", v |-> vs]
Obj(ps) == [t |-> "obj", v |-> ps]
\* A reference to the graph's node object stored under property key id.
Ref(id) == [t |-> "ref", id |-> id]
P(k, v) == [k |-> k, v |-> v]

Ch(s, i) == IF i >= 1 /\ i <= Len(s) THEN SubSeq(s, i, i) ELSE ""
IsDigit(c) == c # "" /\ \E d \in 1..10 : SubSeq("0123456789", d, d) = c
DigitVal(c) == (CHOOSE d \in 1..10 : SubSeq("0123456789", d, d) = c) - 1
DigitChar(d) == SubSeq("0123456789", d + 1, d + 1)

RECURSIVE NatText(_)
NatText(n) == IF n < 10 THEN DigitChar(n) ELSE NatText(n \div 10) \o DigitChar(n % 10)

RECURSIVE FracText(_, _)
\* The digits of f/unit (0 < f < unit) without trailing zeros.
FracText(f, unit) ==
  IF f = 0 THEN ""
  ELSE DigitChar((f * 10) \div unit) \o FracText((f * 10) % unit, unit)

\* Number::toString for the numbers of the model.
NumText(n) ==
  LET a == IF n < 0 THEN -n ELSE n
      body == NatText(a \div Scale) \o
              (IF a % Scale = 0 THEN "" ELSE "." \o FracText(a % Scale, Scale))
  IN IF n < 0 THEN "-" \o body ELSE body

\* ToBoolean.
Truthy(v) ==
  CASE v.t = "undef" -> FALSE
    [] v.t = "null" -> FALSE
    [] v.t = "nan" -> FALSE
    [] v.t = "bool" -> v.v
    [] v.t = "num" -> v.v # 0
    [] v.t = "str" -> v.v # ""
    [] OTHER -> TRUE

(***************************************************************************)
(* Objects: a sequence of key/value pairs in own-property order (integer   *)
(* keys ascending, then the other keys in insertion order).                *)
(***************************************************************************)
RECURSIVE AllDigits(_)
AllDigits(s) == s = "" \/ (IsDigit(Head(s)) /\ AllDigits(Tail(s)))

IsIndexKey(k) == k # "" /\ AllDigits(k) /\ (Len(k) = 1 \/ Head(k) # "0") /\ Len(k) <= 8

RECURSIVE StrToNat(_, _)
StrToNat(s, acc) == IF s = "" THEN acc ELSE StrToNat(Tail(s), acc * 10 + DigitVal(Head(s)))

HasKey(ps, k) == \E i \in 1..Len(ps) : ps[i].k = k
KeyIndex(ps, k) == CHOOSE i \in 1..Len(ps) : ps[i].k = k

\* Where a new key goes.
InsertAt(ps, k) ==
  IF IsIndexKey(k)
  THEN Cardinality({i \in 1..Len(ps) :
                      IsIndexKey(ps[i].k) /\ StrToNat(ps[i].k, 0) < StrToNat(k, 0)}) + 1
  ELSE Len(ps) + 1

\* obj[k] = v on the pair list.
SetPair(ps, k, v) ==
  IF HasKey(ps, k)
  THEN [ps EXCEPT ![KeyIndex(ps, k)] = P(k, v)]
  ELSE LET at == InsertAt(ps, k)
       IN SubSeq(ps, 1, at - 1) \o <<P(k, v)>> \o SubSeq(ps, at, Len(ps))

\* The own enumerable properties of a value, as Object.entries lists them.
Entries(v) ==
  CASE v.t = "obj" -> v.v
    [] v.t = "arr" -> [i \in 1..Len(v.v) |-> P(NatText(i - 1), v.v[i])]
    [] v.t = "str" -> [i \in 1..Len(v.v) |-> P(NatText(i - 1), Str(Ch(v.v, i)))]
    [] OTHER -> <<>>

\* The value of key k in the pair list ps.
PairValue(ps, k) == IF HasKey(ps, k) THEN ps[KeyIndex(ps, k)].v ELSE Undef

\* v[k] for a value v that is neither null nor undefined.
GetField(v, k) ==
  IF k = "length" /\ v.t \in {"arr", "str"} THEN Whole(Len(v.v))
  ELSE PairValue(Entries(v), k)

\* v[k] = x for an object or an array v and, for an array, an index k it has.
SetField(v, k, x) ==
  IF v.t = "obj" THEN Obj(SetPair(v.v, k, x))
  ELSE IF v.t = "arr" /\ IsIndexKey(k) /\ StrToNat(k, 0) < Len(v.v)
  THEN Arr([v.v EXCEPT ![StrToNat(k, 0) + 1] = x])
  ELSE v

(***************************************************************************)
(* JSON.parse, character by character.  The text alphabet of the model has *)
(* the space as its only white space, the escapes \" \\ \/ and numbers     *)
(* without exponent.                                                       *)
(***************************************************************************)
Fail == [ok |-> FALSE, val |-> Undef, pos |-> 0]
Got(v, i) == [ok |-> TRUE, val |-> v, pos |-> i]

RECURSIVE SkipWs(_, _)
SkipWs(s, i) == IF Ch(s, i) = " " THEN SkipWs(s, i + 1) ELSE i

RECURSIVE ScanString(_, _, _)
\* i is the place after the opening quote.
ScanString(s, i, acc) ==
  LET c == Ch(s, i)
  IN IF c = "" THEN Fail
     ELSE IF c = "\"" THEN Got(Str(acc), i + 1)
     ELSE IF c = "\\"
     THEN IF Ch(s, i + 1) \in {"\"", "\\", "/"}
          THEN ScanString(s, i + 2, acc \o Ch(s, i + 1))
          ELSE Fail
     ELSE ScanString(s, i + 1, acc \o c)

RECURSIVE DigitsEnd(_, _)
DigitsEnd(s, i) == IF IsDigit(Ch(s, i)) THEN DigitsEnd(s, i + 1) ELSE i

\* The fraction digits ds in units of 1/Scale (digits past the unit are dropped).
FracVal(ds) ==
  LET four == SubSeq(ds \o "0000", 1, 4) IN StrToNat(four, 0)

ScanNumber(s, i) ==
  LET neg == Ch(s, i) = "-"
      a == IF neg THEN i + 1 ELSE i
      b == DigitsEnd(s, a)
      c == IF Ch(s, b) = "." THEN DigitsEnd(s, b + 1) ELSE b
      mag == StrToNat(SubSeq(s, a, b - 1), 0) * Scale +
             (IF c > b THEN FracVal(SubSeq(s, b + 1, c - 1)) ELSE 0)
  IN IF b = a \/ (b - a > 1 /\ Ch(s, a) = "0") \/ c = b + 1 THEN Fail
     ELSE Got(Num(IF neg THEN -mag ELSE mag), c)

IsWord(s, i, w) == i + Len(w) - 1 <= Len(s) /\ SubSeq(s, i, i + Len(w) - 1) = w

RECURSIVE ParseValue(_, _)
RECURSIVE ParseElements(_, _, _)
RECURSIVE ParseMembers(_, _, _)

ParseValue(s, i0) ==
  LET i == SkipWs(s, i0)
      c == Ch(s, i)
  IN CASE c = "{" ->
            IF Ch(s, SkipWs(s, i + 1)) = "}" THEN Got(Obj(<<>>), SkipWs(s, i + 1) + 1)
            ELSE ParseMembers(s, i + 1, <<>>)
       [] c = "[" ->
            IF Ch(s, SkipWs(s, i + 1)) = "]" THEN Got(Arr(<<>>), SkipWs(s, i + 1) + 1)
            ELSE ParseElements(s, i + 1, <<>>)
       [] c = "\"" -> ScanString(s, i + 1, "")
       [] c = "-" \/ IsDigit(c) -> ScanNumber(s, i)
       [] c = "t" -> IF IsWord(s, i, "true") THEN Got(Bool(TRUE), i + 4) ELSE Fail
       [] c = "f" -> IF IsWord(s, i, "false") THEN Got(Bool(FALSE), i + 5) ELSE Fail
       [] c = "n" -> IF IsWord(s, i, "null") THEN Got(Null, i + 4) ELSE Fail
       [] OTHER -> Fail

ParseElements(s, i, acc) ==
  LET r == ParseValue(s, i)
      j == SkipWs(s, r.pos)
  IN IF ~r.ok THEN Fail
     ELSE IF Ch(s, j) = "," THEN ParseElements(s, j + 1, Append(acc, r.val))
     ELSE IF Ch(s, j) = "]" THEN Got(Arr(Append(acc, r.val)), j + 1)
     ELSE Fail

ParseMembers(s, i0, acc) ==
  LET i == SkipWs(s, i0)
      k == IF Ch(s, i) = "\"" THEN ScanString(s, i + 1, "") ELSE Fail
      c == SkipWs(s, k.pos)
      r == IF k.ok /\ Ch(s, c) = ":" THEN ParseValue(s, c + 1) ELSE Fail
      j == SkipWs(s, r.pos)
  IN IF ~r.ok THEN Fail
     ELSE IF Ch(s, j) = "," THEN ParseMembers(s, j + 1, SetPair(acc, k.val.v, r.val))
     ELSE IF Ch(s, j) = "}" THEN Got(Obj(SetPair(acc, k.val.v, r.val)), j + 1)
     ELSE Fail

\* The document, when r is a value that ends where the text ends.
Document(text, r) ==
  IF r.ok /\ SkipWs(text, r.pos) = Len(text) + 1
  THEN [ok |-> TRUE, val |-> r.val]
  ELSE [ok |-> FALSE, val |-> Undef]

\* JSON.parse(text): ok is FALSE for a SyntaxError.
JSONparse(text) == Document(text, ParseValue(text, 1))

(***************************************************************************)
(* JSON.stringify.  A Ref is printed as the graph node it points to; a     *)
(* node met again on the path from the root is a circular structure.       *)
(***************************************************************************)
RECURSIVE EscText(_)
EscText(s) ==
  IF s = "" THEN ""
  ELSE (IF Head(s) \in {"\"", "\\"} THEN "\\" \o Head(s) ELSE Head(s)) \o EscText(Tail(s))

QuoteText(s) == "\"" \o EscText(s) \o "\""

\* ok: no TypeError; def: the value is printed (undefined is not).
Printed(text) == [ok |-> TRUE, def |-> TRUE, text |-> text]
NotPrinted == [ok |-> TRUE, def |-> FALSE, text |-> ""]
Circular == [ok |-> FALSE, def |-> FALSE, text |-> ""]

RECURSIVE Serialize(_, _, _)
RECURSIVE SerializeElements(_, _, _, _, _)
RECURSIVE SerializeMembers(_, _, _, _, _)

\* graph: the value Refs point into; path: the node ids being printed.
Serialize(graph, v, path) ==
  CASE v.t = "undef" -> NotPrinted
    [] v.t \in {"null", "nan"} -> Printed("null")
    [] v.t = "bool" -> Printed(IF v.v THEN "true" ELSE "false")
    [] v.t = "num" -> Printed(NumText(v.v))
    [] v.t = "str" -> Printed(QuoteText(v.v))
    [] v.t = "arr" -> SerializeElements(graph, v.v, 1, path, "")
    [] v.t = "obj" -> SerializeMembers(graph, v.v, 1, path, "")
    [] v.t = "ref" ->
         IF v.id \in path THEN Circular
         ELSE Serialize(graph, GetField(graph, v.id), path \cup {v.id})

SerializeElements(graph, vs, i, path, acc) ==
  IF i > Len(vs) THEN Printed("[" \o acc \o "]")
  ELSE LET r == Serialize(graph, vs[i], path)
           sep == IF i = 1 THEN "" ELSE ","
       IN IF ~r.ok THEN Circular
          ELSE SerializeElements(graph, vs, i + 1, path,
                 acc \o sep \o (IF r.def THEN r.text ELSE "null"))

SerializeMembers(graph, ps, i, path, acc) ==
  IF i > Len(ps) THEN Printed("{" \o acc \o "}")
  ELSE LET r == Serialize(graph, ps[i].v, path)
           sep == IF acc = "" THEN "" ELSE ","
       IN IF ~r.ok THEN Circular
          ELSE SerializeMembers(graph, ps, i + 1, path,
                 IF r.def THEN acc \o sep \o QuoteText(ps[i].k) \o ":" \o r.text
                 ELSE acc)

\* JSON.stringify(v) for a value without Refs.
JSONstringify(v) == Serialize(Null, v, {})

\* The graph itself: each of its nodes is on the path while it is printed.
SerializeGraph(graph) ==
  IF graph.t \in {"obj", "arr"}
  THEN Serialize(graph,
         IF graph.t = "obj"
         THEN Obj([i \in 1..Len(graph.v) |-> P(graph.v[i].k, Ref(graph.v[i].k))])
         ELSE Arr([i \in 1..Len(graph.v) |-> Ref(NatText(i - 1))]),
         {})
  ELSE Serialize(graph, graph, {})

(***************************************************************************)
(* Exceptions and property reads.  A thrown exception is a value that      *)
(* every later read passes on.                                             *)
(***************************************************************************)
Throw(name) == [t |-> "throw", name |-> name]
TypeError == Throw("TypeError")
IsThrow(v) == v.t = "throw"

\* The first exception among vs, in evaluation order, or Undef.
RECURSIVE FirstThrow(_)
FirstThrow(vs) ==
  IF vs = <<>> THEN Undef
  ELSE IF IsThrow(Head(vs)) THEN Head(vs)
  ELSE FirstThrow(Tail(vs))

\* The object a value denotes: a Ref is the graph's node.
Deref(graph, v) == IF v.t = "ref" THEN GetField(graph, v.id) ELSE v

\* v?.k
OptProp(graph, v, k) ==
  IF IsThrow(v) THEN v
  ELSE IF v.t \in {"undef", "null"} THEN Undef
  ELSE GetField(Deref(graph, v), k)

\* Prop with every read guarded: v?.k in place of v.k.
PropGuarded(graph, v, k) == OptProp(graph, v, k)

\* v.k, a TypeError when v is undefined or null.
Prop(graph, v, k) ==
  IF IsThrow(v) THEN v
  ELSE IF v.t \in {"undef", "null"} THEN TypeError
  ELSE GetField(Deref(graph, v), k)

\* a === b
StrictEq(a, b) == a = b /\ a.t \notin {"obj", "arr", "nan"}

\* String(v), as a template literal or a property key converts it.
ToText(v) ==
  CASE v.t = "str" -> v.v
    [] v.t = "num" -> NumText(v.v)
    [] v.t = "bool" -> IF v.v THEN "true" ELSE "false"
    [] v.t = "null" -> "null"
    [] v.t = "undef" -> "undefined"
    [] v.t = "nan" -> "NaN"
    [] v.t = "arr" -> IF v.v = <<>> THEN ""
                      ELSE IF Len(v.v) = 1 /\ v.v[1].t = "str" THEN v.v[1].v
                      ELSE "[array]"
    [] OTHER -> "[object Object]"

\* The number r scanned, when it is all of s.
WholeNumber(s, r) == IF r.ok /\ r.pos = Len(s) + 1 THEN r.val ELSE NaN

\* Number(v), as a comparison converts its operand.
ToNumber(v) ==
  CASE v.t = "num" -> v
    [] v.t = "null" -> Whole(0)
    [] v.t = "bool" -> Whole(IF v.v THEN 1 ELSE 0)
    [] v.t = "str" -> IF v.v = "" THEN Whole(0) ELSE WholeNumber(v.v, ScanNumber(v.v, 1))
    [] OTHER -> NaN

(***************************************************************************)
(* The helpers of the processor.                                           *)
(***************************************************************************)
AIR_KEYS == <<"ckpt_airs", "lora_airs", "embedding_airs">>

\* Where pat occurs in s, at from or later.
Matches(s, pat, from) ==
  {i \in from..(Len(s) - Len(pat) + 1) : SubSeq(s, i, i + Len(pat) - 1) = pat}

RECURSIVE ReplaceFrom(_, _, _, _)
\* s from place from on, each occurrence of pat replaced, left to right.
ReplaceFrom(s, pat, rep, from) ==
  LET found == Matches(s, pat, from)
      at == CHOOSE i \in found : \A j \in found : i <= j
  IN IF found = {} THEN SubSeq(s, from, Len(s))
     ELSE SubSeq(s, from, at - 1) \o rep \o ReplaceFrom(s, pat, rep, at + Len(pat))

\* str.replace(/pat/g, rep) for a literal pattern.
ReplaceAll(s, pat, rep) == ReplaceFrom(s, pat, rep, 1)

\* cleanBadJson without its second replace: [Infinity] is kept.
cleanBadJsonNaNOnly(str) == ReplaceAll(str, "[NaN]", "[]")

cleanBadJson(str) == ReplaceAll(ReplaceAll(str, "[NaN]", "[]"), "[Infinity]", "[]")

RECURSIVE RunLength(_, _)
\* The number of backslashes s starts with.
RunLength(s, n) == IF Ch(s, n + 1) = "\\" THEN RunLength(s, n + 1) ELSE n

RECURSIVE ReplaceSeparators(_)
\* name.replace(/\\(\\\\)*/g, '/'): a backslash and the pairs of backslashes
\* that follow it become one slash.
ReplaceSeparators(s) ==
  IF s = "" THEN ""
  ELSE IF Head(s) = "\\"
  THEN LET n == RunLength(s, 0)
           used == 1 + 2 * ((n - 1) \div 2)
       IN "/" \o ReplaceSeparators(SubSeq(s, used + 1, Len(s)))
  ELSE Head(s) \o ReplaceSeparators(Tail(s))

Positions(s, c) == {i \in 1..Len(s) : Ch(s, i) = c}
Last(S) == CHOOSE i \in S : \A j \in S : j <= i

\* parts[parts.length - 1] of s.split('/')
LastPart(s) ==
  IF Positions(s, "/") = {} THEN s
  ELSE SubSeq(s, Last(Positions(s, "/")) + 1, Len(s))

\* s.replace(/\.[^/.]+$/, '')
StripExtension(s) ==
  LET dots == Positions(s, ".")
  IN IF dots # {} /\ Last(dots) < Len(s) /\
        \A i \in (Last(dots) + 1)..Len(s) : Ch(s, i) # "/"
     THEN SubSeq(s, 1, Last(dots) - 1)
     ELSE s

\* modelFileName(name); name.replace is a TypeError unless name is a string.
modelFileName(name) ==
  IF IsThrow(name) THEN name
  ELSE IF name.t # "str" THEN TypeError
  ELSE Str(StripExtension(LastPart(ReplaceSeparators(name.v))))

RECURSIVE ValueChain(_, _, _)
\* The Value inputs followed from node to node; seen: the nodes the recursion
\* is in.  A chain that comes back to one of them never ends (RangeError).
ValueChain(graph, input, seen) ==
  IF input.t = "num" \/ IsThrow(input) THEN input
  ELSE IF input.t = "ref" /\ input.id \in seen THEN Throw("RangeError")
  ELSE IF input.t \notin {"ref", "obj"}
  THEN Prop(graph, Prop(graph, input, "inputs"), "Value")
  ELSE ValueChain(graph, Prop(graph, Prop(graph, input, "inputs"), "Value"),
                  IF input.t = "ref" THEN seen \cup {input.id} ELSE seen)

\* getNumberValue as a recursion: the Value of a node that is itself a node is
\* coerced in turn.
getNumberValueDeep(graph, input) == ValueChain(graph, input, {})

\* getNumberValue without the read of Value: the input as it is.
getNumberValueAsIs(graph, input) == input

\* getNumberValue(input)
getNumberValue(graph, input) ==
  IF input.t = "num" THEN input
  ELSE Prop(graph, Prop(graph, input, "inputs"), "Value")

\* DualText without the final return '' (line 178): the value of text_g.
DualTextNoDefault(text_g, text_l) ==
  IF Truthy(text_g)
  THEN IF ~Truthy(text_l) \/ StrictEq(text_l, text_g) THEN text_g
       ELSE Str(ToText(text_g) \o ", " \o ToText(text_l))
  ELSE text_g

\* Lines 173-178.
DualText(text_g, text_l) ==
  IF Truthy(text_g)
  THEN IF ~Truthy(text_l) \/ StrictEq(text_l, text_g) THEN text_g
       ELSE Str(ToText(text_g) \o ", " \o ToText(text_l))
  ELSE Str("")

RECURSIVE PromptText(_, _, _)
RECURSIVE InputsText(_, _, _)
RECURSIVE TextOf3(_, _, _, _, _)
\* getPromptText(node); seen: the graph nodes the recursion is in.  A chain
\* of text inputs that comes back to one of them never ends: the call stack
\* overflows (RangeError).
PromptText(graph, node, seen) == InputsText(graph, Prop(graph, node, "inputs"), seen)

\* Lines 168-178 for the value of node.inputs.
InputsText(graph, inputs, seen) ==
  IF IsThrow(inputs) THEN inputs
  ELSE TextOf3(graph, OptProp(graph, inputs, "text"), OptProp(graph, inputs, "text_g"),
               OptProp(graph, inputs, "text_l"), seen)

\* Lines 168-178 for the values of the three text inputs.
TextOf3(graph, text, text_g, text_l, seen) ==
  IF Truthy(text) /\ text.t = "str" THEN text
  ELSE IF Truthy(text) /\ Prop(graph, text, "class_type") # Undef
  THEN IF text.t = "ref" /\ text.id \in seen THEN Throw("RangeError")
       ELSE PromptText(graph, text, IF text.t = "ref" THEN seen \cup {text.id} ELSE seen)
  ELSE DualText(text_g, text_l)

getPromptText(graph, node) ==
  PromptText(graph, node, IF node.t = "ref" THEN {node.id} ELSE {})

(***************************************************************************)
(* External collaborators of the processor.                                *)
(***************************************************************************)
\* The sampler-name translation table (~/server/common/constants), an excerpt.
samplerMap ==
  << [key |-> "Euler a", value |-> "euler_ancestral"],
     [key |-> "Euler", value |-> "euler"],
     [key |-> "DPM++ 2M Karras", value |-> "dpmpp_2m_karras"],
     [key |-> "DPM++ 2M", value |-> "dpmpp_2m"] >>

\* findKeyForValue(map, value): the first key whose value is the probe.
findKeyForValue(map, value) ==
  LET hits == {i \in 1..Len(map) : map[i].value = value}
  IN IF hits = {} THEN Undef
     ELSE Str(map[CHOOSE i \in hits : \A j \in hits : i <= j].key)

\* fromJson(str) (../json-helpers): structural decoding.
fromJson(str) == JSONparse(str)

(***************************************************************************)
(* The sweep over the nodes (parse, lines 25-80).                          *)
(***************************************************************************)
\* 0.001, the strength below which a LoRA counts as not applied.
StrengthEps == 10

\* prompt[value[0]] for an array-valued input: the node object (by
\* reference), a primitive stored under that key, or undefined.
Lookup(graph, value) ==
  LET key == ToText(IF value.v = <<>> THEN Undef ELSE value.v[1])
      target == GetField(graph, key)
  IN IF target.t \in {"obj", "arr"} THEN Ref(key) ELSE target

\* One input after lines 26-28.
ResolveInput(graph, value) ==
  IF value.t = "arr" THEN Lookup(graph, value) ELSE value

\* node.inputs after lines 26-28.
ResolveInputs(graph, inputs) ==
  CASE inputs.t = "obj" ->
         Obj([i \in 1..Len(inputs.v) |->
                P(inputs.v[i].k, ResolveInput(graph, inputs.v[i].v))])
    [] inputs.t = "arr" ->
         Arr([i \in 1..Len(inputs.v) |-> ResolveInput(graph, inputs.v[i])])
    [] OTHER -> inputs

\* IsType with a test of the start of the tag only: a tag that goes on after
\* name is taken for name.
IsTypeStart(node, name) ==
  /\ GetField(node, "class_type").t = "str"
  /\ IsWord(GetField(node, "class_type").v, 1, name)

\* node.class_type == name
IsType(node, name) == GetField(node, "class_type") = Str(name)

\* LoraSkipped with the threshold itself skipped: strength <= 0.001 &&
\* strength >= -0.001.
LoraSkippedInclusive(strength) ==
  LET n == ToNumber(strength)
  IN n.t = "num" /\ n.v <= StrengthEps /\ n.v >= -StrengthEps

\* strength < 0.001 && strength > -0.001
LoraSkipped(strength) ==
  LET n == ToNumber(strength)
  IN n.t = "num" /\ n.v < StrengthEps /\ n.v > -StrengthEps

\* (node.x_hash as string) || undefined
HashValue(h) == IF Truthy(h) THEN h ELSE Undef

\* hashes after lines 49-52.
LoraHashes(hashes, lora_name, hash_value) ==
  IF Truthy(hash_value) THEN SetField(hashes, "lora:" \o lora_name.v, hash_value)
  ELSE hashes

\* ModelHashes without the test of hashes.model: the last checkpoint wins.
ModelHashesLast(hashes, hash_value) ==
  IF Truthy(hash_value) THEN SetField(hashes, "model", hash_value) ELSE hashes

\* hashes after line 69.
ModelHashes(hashes, hash_value) ==
  IF ~Truthy(GetField(hashes, "model")) /\ Truthy(hash_value)
  THEN SetField(hashes, "model", hash_value)
  ELSE hashes

Resource(name, type, weight, weightClip, hash) ==
  [name |-> name, type |-> type, weight |-> weight, weightClip |-> weightClip,
   hash |-> hash]

\* Lines 31-36 for the values of the two getNumberValue calls.
Simplified(inputs, steps, cfg) ==
  IF IsThrow(steps) THEN steps
  ELSE IF IsThrow(cfg) THEN cfg
  ELSE Obj(SetPair(SetPair(Entries(inputs), "steps", steps), "cfg", cfg))

\* The SamplerNode a KSamplerAdvanced node records (lines 31-36), or the
\* exception getNumberValue throws.
SimplifiedNode(graph, inputs) ==
  Simplified(inputs, getNumberValue(graph, GetField(inputs, "steps")),
             getNumberValue(graph, GetField(inputs, "cfg")))

(***************************************************************************)
(* Canonical sampler (lines 82-83).                                        *)
(***************************************************************************)
\* x.latent_image.class_type
LatentType(graph, x) == Prop(graph, Prop(graph, x, "latent_image"), "class_type")

RECURSIVE FindSampler(_, _, _)
\* samplerNodes.find(x => x.latent_image.class_type == 'EmptyLatentImage'),
\* from index i: the index found, 0 for none, or the exception of the
\* callback.
FindSampler(graph, samplers, i) ==
  IF i > Len(samplers) THEN Whole(0)
  ELSE IF IsThrow(LatentType(graph, samplers[i])) THEN LatentType(graph, samplers[i])
  ELSE IF LatentType(graph, samplers[i]) = Str("EmptyLatentImage") THEN Whole(i)
  ELSE FindSampler(graph, samplers, i + 1)

\* Line 83 for the outcome of find.
FoundOrFirst(samplers, found) ==
  IF IsThrow(found) THEN found
  ELSE IF found # Whole(0) THEN samplers[found.v \div Scale]
  ELSE IF samplers = <<>> THEN Undef
  ELSE samplers[1]

SelectedSampler(graph, samplers) == FoundOrFirst(samplers, FindSampler(graph, samplers, 1))

(***************************************************************************)
(* Workflow extras (lines 86-99).                                          *)
(***************************************************************************)
\* The first two parts of air.split('@'); the second is undefined without '@'.
SplitAir(air) ==
  LET ats == Positions(air, "@")
      first == IF ats = {} THEN Len(air) + 1 ELSE CHOOSE i \in ats : \A j \in ats : i <= j
      rest == SubSeq(air, first + 1, Len(air))
      more == Positions(rest, "@")
      second == IF more = {} THEN Len(rest) + 1 ELSE CHOOSE i \in more : \A j \in more : i <= j
  IN [modelId |-> Str(SubSeq(air, 1, first - 1)),
      versionId |-> IF ats = {} THEN Undef ELSE Str(SubSeq(rest, 1, second - 1))]

\* parseInt(s): the digits s starts with, after blanks and a sign.
parseInt(s) ==
  LET a == SkipWs(s, 1)
      b == IF Ch(s, a) \in {"-", "+"} THEN a + 1 ELSE a
      c == DigitsEnd(s, b)
  IN IF c = b THEN NaN
     ELSE Whole((IF Ch(s, a) = "-" THEN -1 ELSE 1) * StrToNat(SubSeq(s, b, c - 1), 0))

\* The elements for (const air of airs) visits; airs is truthy.
Iterate(airs) ==
  CASE airs.t = "arr" -> airs.v
    [] airs.t = "str" -> [i \in 1..Len(airs.v) |-> Str(Ch(airs.v, i))]
    [] OTHER -> <<TypeError>>

\* WithAir without the else of line 96: the model id is recorded next to the
\* version id.
WithAirBoth(ids, air) ==
  [ids EXCEPT
     !.versionIds = IF Truthy(air.versionId) THEN Append(@, parseInt(air.versionId.v)) ELSE @,
     !.modelIds = IF Truthy(air.modelId) THEN Append(@, parseInt(air.modelId.v)) ELSE @]

\* Lines 95-96 for one split air.
WithAir(ids, air) ==
  IF Truthy(air.versionId)
  THEN [ids EXCEPT !.versionIds = Append(@, parseInt(air.versionId.v))]
  ELSE IF Truthy(air.modelId)
  THEN [ids EXCEPT !.modelIds = Append(@, parseInt(air.modelId.v))]
  ELSE ids

RECURSIVE ScanAirs(_, _, _)
\* Lines 93-97 from element i on; ids: [err, versionIds, modelIds].
ScanAirs(airs, i, ids) ==
  IF i > Len(airs) THEN ids
  ELSE IF airs[i].t # "str" THEN [ids EXCEPT !.err = TypeError]
  ELSE ScanAirs(airs, i + 1, WithAir(ids, SplitAir(airs[i].v)))

RECURSIVE ScanExtra(_, _, _)
\* Lines 89-98 from key k on.
ScanExtra(extra, k, ids) ==
  IF k > Len(AIR_KEYS) \/ IsThrow(ids.err) THEN ids
  ELSE LET airs == GetField(extra, AIR_KEYS[k])
       IN ScanExtra(extra, k + 1,
            IF ~Truthy(airs) THEN ids ELSE ScanAirs(Iterate(airs), 1, ids))

\* Lines 86-99.
WorkflowIds(workflow) ==
  LET none == [err |-> Undef, versionIds |-> <<>>, modelIds |-> <<>>]
      extra == OptProp(Null, workflow, "extra")
  IN IF Truthy(extra) THEN ScanExtra(extra, 1, none) ELSE none

(***************************************************************************)
(* The record (lines 101-140) and a1111Compatability (lines 150-165).      *)
(***************************************************************************)
\* A property that was never assigned.
Absent == [t |-> "absent"]

\* CompatSampler without the test of the scheduler (line 154): the _karras
\* probe is made for every scheduler.
CompatSamplerAnyScheduler(sampler, scheduler) ==
  LET karras == findKeyForValue(samplerMap, ToText(sampler) \o "_karras")
      a1111sampler == IF ~Truthy(karras)
                      THEN findKeyForValue(samplerMap, IF sampler.t = "str" THEN sampler.v ELSE "")
                      ELSE karras
  IN IF Truthy(a1111sampler) THEN a1111sampler ELSE sampler

\* The sampler name after lines 152-158.
CompatSampler(sampler, scheduler) ==
  LET karras == IF scheduler = Str("karras")
                THEN findKeyForValue(samplerMap, ToText(sampler) \o "_karras")
                ELSE Undef
      a1111sampler == IF ~Truthy(karras)
                      THEN findKeyForValue(samplerMap, IF sampler.t = "str" THEN sampler.v ELSE "")
                      ELSE karras
  IN IF Truthy(a1111sampler) THEN a1111sampler ELSE sampler

a1111Compatability(metadata) ==
  [metadata EXCEPT
     !.sampler = CompatSampler(metadata.sampler, metadata.scheduler),
     !.Model = IF Len(metadata.models) > 0
               THEN Str(StripExtension(metadata.models[1].v))
               ELSE @]

\* ControlNetPrompt through getPromptText: the text extracted from the
\* conditioning node, recursion and text_g/text_l included.
ControlNetPromptExtracted(graph, positive, prompt) ==
  IF StrictEq(Prop(graph, positive, "class_type"), Str("ControlNetApply"))
  THEN getPromptText(graph, Prop(graph, Prop(graph, positive, "inputs"), "conditioning"))
  ELSE prompt

\* metadata.prompt after lines 132-135.
ControlNetPrompt(graph, positive, prompt) ==
  IF StrictEq(Prop(graph, positive, "class_type"), Str("ControlNetApply"))
  THEN Prop(graph, Prop(graph, Prop(graph, Prop(graph, positive, "inputs"),
                                    "conditioning"), "inputs"), "text")
  ELSE prompt

\* PromptAndWorkflow without the TypeError of a circular structure: a graph
\* that cannot be printed is left out of the payload.
PromptAndWorkflowLenient(g, w) ==
  Str("{" \o (IF g.ok /\ g.def THEN "\"prompt\":" \o g.text \o "," ELSE "")
      \o "\"workflow\":" \o w.text \o "}")

\* JSON.stringify({prompt, workflow}) for the printed graph g and workflow w.
PromptAndWorkflow(g, w) ==
  IF ~g.ok THEN TypeError
  ELSE Str("{" \o (IF g.def THEN "\"prompt\":" \o g.text \o "," ELSE "")
           \o "\"workflow\":" \o w.text \o "}")

\* The text of the comfy field (line 121), or the TypeError of a circular
\* structure.
ComfyText(graph, workflow) ==
  PromptAndWorkflow(SerializeGraph(graph), Serialize(Null, workflow, {}))

\* FirstModel with the search from the end: the last checkpoint among the
\* resources.
FirstModelLast(resources) ==
  IF \E i \in 1..Len(resources) : resources[i].type = "model"
  THEN resources[CHOOSE i \in 1..Len(resources) :
                   /\ resources[i].type = "model"
                   /\ \A j \in (i + 1)..Len(resources) : resources[j].type # "model"]
  ELSE [name |-> Absent, hash |-> Absent]

\* The first checkpoint among the resources, or Absent (lines 124-129).
FirstModel(resources) ==
  IF \E i \in 1..Len(resources) : resources[i].type = "model"
  THEN resources[CHOOSE i \in 1..Len(resources) :
                   /\ resources[i].type = "model"
                   /\ \A j \in 1..(i - 1) : resources[j].type # "model"]
  ELSE [name |-> Absent, hash |-> Absent]

\* The record of lines 101-129; a field holds the exception its expression
\* throws.
InitialMetadata(graph, sn, workflow, ids, lists) ==
  [prompt |-> getPromptText(graph, Prop(graph, sn, "positive")),
   negativePrompt |-> getPromptText(graph, Prop(graph, sn, "negative")),
   cfgScale |-> Prop(graph, sn, "cfg"),
   steps |-> Prop(graph, sn, "steps"),
   seed |-> Prop(graph, sn, "seed"),
   sampler |-> Prop(graph, sn, "sampler_name"),
   scheduler |-> Prop(graph, sn, "scheduler"),
   denoise |-> Prop(graph, sn, "denoise"),
   width |-> Prop(graph, Prop(graph, Prop(graph, sn, "latent_image"), "inputs"), "width"),
   height |-> Prop(graph, Prop(graph, Prop(graph, sn, "latent_image"), "inputs"), "height"),
   hashes |-> lists.hashes,
   models |-> lists.models,
   upscalers |-> lists.upscalers,
   vaes |-> lists.vaes,
   additionalResources |-> lists.additionalResources,
   controlNets |-> lists.controlNets,
   versionIds |-> ids.versionIds,
   modelIds |-> ids.modelIds,
   comfy |-> ComfyText(graph, workflow),
   Model |-> FirstModel(lists.additionalResources).name,
   ModelHash |-> FirstModel(lists.additionalResources).hash]

\* Lines 131-140 for the record first and the prompt of lines 132-135.
Completed(first, prompt) ==
  IF IsThrow(FirstThrow(<<first.prompt, first.negativePrompt, first.cfgScale,
                          first.width, first.comfy, prompt>>))
  THEN FirstThrow(<<first.prompt, first.negativePrompt, first.cfgScale,
                    first.width, first.comfy, prompt>>)
  ELSE a1111Compatability([first EXCEPT !.prompt = prompt])

\* Lines 131-135 for the record first.
Overridden(graph, positive, first) ==
  Completed(first, ControlNetPrompt(graph, positive, first.prompt))

\* Lines 101-140: the record, or the first exception on the way.
Metadata(graph, sn, workflow, ids, lists) ==
  Overridden(graph, Prop(graph, sn, "positive"),
             InitialMetadata(graph, sn, workflow, ids, lists))

(***************************************************************************)
(* canParse (line 14) and encode (lines 142-147).                          *)
(***************************************************************************)
\* canParse without the workflow: exif.prompt alone.
canParsePromptOnly(exif) == exif.prompt

\* exif.prompt && exif.workflow
canParse(exif) == IF Truthy(exif.prompt) THEN exif.workflow ELSE exif.prompt

\* comfy && comfy.workflow ? JSON.stringify(comfy.workflow) : ''
EncodeWorkflow(comfy) ==
  IF Truthy(comfy) /\ Truthy(GetField(comfy, "workflow"))
  THEN Str(JSONstringify(GetField(comfy, "workflow")).text)
  ELSE Str("")

\* Line 146 for the outcome of fromJson.
EncodeDecoded(decoded) ==
  IF decoded.ok THEN EncodeWorkflow(decoded.val) ELSE Throw("SyntaxError")

\* encode(meta) for the comfy field of meta; a payload given as text is
\* decoded first.
encode(comfy) ==
  IF comfy.t = "str" THEN EncodeDecoded(fromJson(comfy.v)) ELSE EncodeWorkflow(comfy)

(***************************************************************************)
(* One iteration of the sweep (lines 25-80) on the accumulators acc.       *)
(***************************************************************************)
\* Lines 42-60.  The name is computed after the threshold test.
LoraLoader(acc, inputs, lora_name, hash_value) ==
  IF LoraSkipped(GetField(inputs, "strength_model")) THEN acc
  ELSE IF IsThrow(lora_name) THEN [acc EXCEPT !.err = lora_name]
  ELSE [acc EXCEPT
          !.hashes = LoraHashes(@, lora_name, hash_value),
          !.additionalResources =
             Append(@, Resource(lora_name, "lora", GetField(inputs, "strength_model"),
                                GetField(inputs, "strength_clip"), hash_value))]

\* Lines 64-71.
CheckpointLoaderSimple(acc, model_name, hash_value) ==
  IF IsThrow(model_name) THEN [acc EXCEPT !.err = model_name]
  ELSE [acc EXCEPT
          !.models = Append(@, model_name),
          !.hashes = ModelHashes(@, hash_value),
          !.additionalResources =
             Append(@, Resource(model_name, "model", Undef, Undef, hash_value))]

\* The accumulators after a KSamplerAdvanced node (lines 30-37).
KSamplerAdvanced(acc, simplifiedNode) ==
  IF IsThrow(simplifiedNode) THEN [acc EXCEPT !.err = simplifiedNode]
  ELSE [acc EXCEPT !.samplerNodes = Append(@, simplifiedNode)]

Classify(graph, node, inputs, acc) ==
  CASE IsType(node, "KSamplerAdvanced") ->
         KSamplerAdvanced(acc, SimplifiedNode(graph, inputs))
    [] IsType(node, "KSampler") ->
         [acc EXCEPT !.samplerNodes = Append(@, inputs)]
    [] IsType(node, "LoraLoader") ->
         LoraLoader(acc, inputs, modelFileName(GetField(inputs, "lora_name")),
                    HashValue(GetField(node, "lora_hash")))
    [] IsType(node, "CheckpointLoaderSimple") ->
         CheckpointLoaderSimple(acc, modelFileName(GetField(inputs, "ckpt_name")),
                                HashValue(GetField(node, "ckpt_hash")))
    [] IsType(node, "UpscaleModelLoader") ->
         [acc EXCEPT !.upscalers = Append(@, GetField(inputs, "model_name"))]
    [] IsType(node, "VAELoader") ->
         [acc EXCEPT !.vaes = Append(@, GetField(inputs, "vae_name"))]
    [] IsType(node, "ControlNetLoader") ->
         [acc EXCEPT !.controlNets = Append(@, GetField(inputs, "control_net_name"))]
    [] OTHER -> acc

(***************************************************************************)
(* State.                                                                  *)
(***************************************************************************)
VARIABLES
  exif,                \* the input of canParse and parse: [prompt, workflow]
  pc,                  \* the place of the run
  can,                 \* what canParse returned
  prompt,              \* the decoded graph, edges resolved in place
  order,               \* the keys of Object.values(prompt), in its order
  idx,                 \* the next node of the sweep
  samplerNodes, models, upscalers, vaes, controlNets, additionalResources, hashes,
  initialSamplerNode,
  workflow,            \* the decoded workflow document
  ids,                 \* [err, versionIds, modelIds]
  result,              \* how parse ended: [kind, name, meta]
  comfyArg,            \* the comfy payload encode was given
  encoded              \* what encode returned

lists == <<samplerNodes, models, upscalers, vaes, controlNets, additionalResources, hashes>>
vars == <<exif, pc, can, prompt, order, idx, lists, initialSamplerNode, workflow, ids,
          result, comfyArg, encoded>>

Running == [kind |-> "none", name |-> "", meta |-> Undef]
Failed(thrown) == [kind |-> "error", name |-> thrown.name, meta |-> Undef]
Returned(meta) == [kind |-> "record", name |-> "", meta |-> meta]

\* The state after construction, for the input exif.
Start(e) ==
  /\ exif = e
  /\ pc = "canParse"
  /\ can = Undef
  /\ prompt = Undef
  /\ order = <<>>
  /\ idx = 1
  /\ samplerNodes = <<>>
  /\ models = <<>>
  /\ upscalers = <<>>
  /\ vaes = <<>>
  /\ controlNets = <<>>
  /\ additionalResources = <<>>
  /\ hashes = Obj(<<>>)
  /\ initialSamplerNode = Undef
  /\ workflow = Undef
  /\ ids = [err |-> Undef, versionIds |-> <<>>, modelIds |-> <<>>]
  /\ result = Running
  /\ comfyArg = Undef
  /\ encoded = Undef

(***************************************************************************)
(* Actions.                                                                *)
(***************************************************************************)
\* canParse(exif), line 14.  parse is then run on the same input.
CanParse ==
  /\ pc = "canParse"
  /\ can' = canParse(exif)
  /\ pc' = "start"
  /\ UNCHANGED <<exif, prompt, order, idx, lists, initialSamplerNode, workflow, ids,
                 result, comfyArg, encoded>>

\* The graph Object.values accepts (line 25), for the outcome of line 16.
ValuesOf(decoded) ==
  IF ~decoded.ok THEN Throw("SyntaxError")
  ELSE IF decoded.val.t = "null" THEN TypeError
  ELSE decoded.val

\* The outcome of line 16 and of Object.values(prompt) in line 25.
DecodedPrompt(e) ==
  IF e.prompt.t # "str" THEN TypeError ELSE ValuesOf(JSONparse(cleanBadJson(e.prompt.v)))

\* Lines 16-25 for the outcome decoded of the decoding.
PromptDecoded(decoded) ==
  IF IsThrow(decoded)
  THEN /\ result' = Failed(decoded)
       /\ pc' = "done"
       /\ UNCHANGED <<prompt, order>>
  ELSE /\ prompt' = decoded
       /\ order' = [i \in 1..Len(Entries(decoded)) |-> Entries(decoded)[i].k]
       /\ pc' = "sweep"
       /\ UNCHANGED result

\* Lines 16-25.
DecodePrompt ==
  /\ pc = "start"
  /\ PromptDecoded(DecodedPrompt(exif))
  /\ UNCHANGED <<exif, can, idx, lists, initialSamplerNode, workflow, ids, comfyArg, encoded>>

\* The accumulators of the sweep.
Accumulators ==
  [err |-> Undef, samplerNodes |-> samplerNodes, models |-> models,
   upscalers |-> upscalers, vaes |-> vaes, controlNets |-> controlNets,
   additionalResources |-> additionalResources, hashes |-> hashes]

\* The end of one iteration: graph is the graph with the node's edges
\* resolved, acc the accumulators after lines 30-80.
Swept(graph, acc) ==
  IF IsThrow(acc.err)
  THEN /\ result' = Failed(acc.err)
       /\ pc' = "done"
       /\ prompt' = graph
       /\ UNCHANGED <<idx, lists>>
  ELSE /\ prompt' = graph
       /\ idx' = idx + 1
       /\ samplerNodes' = acc.samplerNodes
       /\ models' = acc.models
       /\ upscalers' = acc.upscalers
       /\ vaes' = acc.vaes
       /\ controlNets' = acc.controlNets
       /\ additionalResources' = acc.additionalResources
       /\ hashes' = acc.hashes
       /\ UNCHANGED <<pc, result>>

\* Lines 30-80 for a node whose resolved inputs are inputs.
Classified(key, node, inputs, graph) ==
  Swept(graph, Classify(graph, node, inputs, Accumulators))

\* Lines 26-28 for a node whose inputs are raw.
Resolved(key, node, raw, inputs) ==
  Classified(key, node, inputs,
             IF inputs = raw THEN prompt
             ELSE SetField(prompt, key, SetField(node, "inputs", inputs)))

\* Lines 25-80 for the node under key.
Visit(key, node, raw) ==
  IF IsThrow(raw) \/ raw.t \in {"undef", "null"}
  THEN /\ result' = Failed(TypeError)
       /\ pc' = "done"
       /\ UNCHANGED <<prompt, idx, lists>>
  ELSE Resolved(key, node, raw, ResolveInputs(prompt, raw))

\* Lines 25-80 for one node.
SweepNode ==
  /\ pc = "sweep"
  /\ idx <= Len(order)
  /\ Visit(order[idx], GetField(prompt, order[idx]),
           Prop(prompt, GetField(prompt, order[idx]), "inputs"))
  /\ UNCHANGED <<exif, can, order, initialSamplerNode, workflow, ids, comfyArg, encoded>>

\* Lines 82-83 for the outcome selected of the selection.
Selected(selected) ==
  IF IsThrow(selected)
  THEN /\ result' = Failed(selected)
       /\ pc' = "done"
       /\ UNCHANGED initialSamplerNode
  ELSE /\ initialSamplerNode' = selected
       /\ pc' = "workflow"
       /\ UNCHANGED result

\* Lines 82-83.
SelectSampler ==
  /\ pc = "sweep"
  /\ idx > Len(order)
  /\ Selected(SelectedSampler(prompt, samplerNodes))
  /\ UNCHANGED <<exif, can, prompt, order, idx, lists, workflow, ids, comfyArg, encoded>>

\* DecodedOrThrow with the SyntaxError swallowed: undefined for malformed text.
DecodedOrUndefined(decoded) == decoded.val

\* JSON.parse(exif.workflow) for the outcome of the parser.
DecodedOrThrow(decoded) == IF decoded.ok THEN decoded.val ELSE Throw("SyntaxError")

\* The outcome of line 85.
DecodedWorkflow(e) ==
  IF e.workflow.t = "str" THEN DecodedOrThrow(JSONparse(e.workflow.v))
  ELSE Throw("SyntaxError")

\* Lines 86-99 for the decoded workflow and the ids scanned from it.
Scanned(decoded, scanned) ==
  IF IsThrow(scanned.err)
  THEN /\ result' = Failed(scanned.err)
       /\ pc' = "done"
       /\ workflow' = decoded
       /\ UNCHANGED ids
  ELSE /\ workflow' = decoded
       /\ ids' = scanned
       /\ pc' = "build"
       /\ UNCHANGED result

\* Lines 85-99 for the outcome decoded of the decoding.
WorkflowDecoded(decoded) ==
  IF IsThrow(decoded)
  THEN /\ result' = Failed(decoded)
       /\ pc' = "done"
       /\ UNCHANGED <<workflow, ids>>
  ELSE Scanned(decoded, WorkflowIds(decoded))

\* Lines 85-99.
DecodeWorkflow ==
  /\ pc = "workflow"
  /\ WorkflowDecoded(DecodedWorkflow(exif))
  /\ UNCHANGED <<exif, can, prompt, order, idx, lists, initialSamplerNode, comfyArg, encoded>>

\* Lines 101-140 for the record, or the exception, metadata.
Built(metadata) ==
  IF "t" \in DOMAIN metadata
  THEN result' = Failed(metadata)
  ELSE result' = Returned(metadata)

\* Lines 101-140.
BuildRecord ==
  /\ pc = "build"
  /\ Built(Metadata(prompt, initialSamplerNode, workflow, ids,
                    [models |-> models, upscalers |-> upscalers, vaes |-> vaes,
                     controlNets |-> controlNets,
                     additionalResources |-> additionalResources, hashes |-> hashes]))
  /\ pc' = "done"
  /\ UNCHANGED <<exif, can, prompt, order, idx, lists, initialSamplerNode, workflow, ids,
                 comfyArg, encoded>>

\* Payloads of records that parse did not build: comfy is missing, or has no
\* workflow, or a null one.
OtherComfy ==
  {Undef, Null, Obj(<<>>), Str("{}"), Obj(<<P("workflow", Null)>>),
   Str("{\"workflow\":null}"), Obj(<<P("prompt", Obj(<<>>))>>)}

\* The payloads encode may be given once parse has ended: the comfy field of
\* the record, as text or decoded by the caller, or one of OtherComfy.
ComfyArgs ==
  IF result.kind = "record"
  THEN OtherComfy \cup {result.meta.comfy, fromJson(result.meta.comfy.v).val}
  ELSE OtherComfy

\* encode(meta), lines 142-147.
Encode ==
  /\ pc = "done"
  /\ \E comfy \in ComfyArgs :
       /\ comfyArg' = comfy
       /\ encoded' = encode(comfy)
  /\ pc' = "encoded"
  /\ UNCHANGED <<exif, can, prompt, order, idx, lists, initialSamplerNode, workflow, ids,
                 result>>

Next ==
  \/ CanParse
  \/ DecodePrompt
  \/ SweepNode
  \/ SelectSampler
  \/ DecodeWorkflow
  \/ BuildRecord
  \/ Encode

(***************************************************************************)
(* Inputs.  The exif texts are printed from generated documents, or        *)
(* written out where the text itself matters (malformed text, blanks,      *)
(* repeated keys, the tokens cleanBadJson rewrites).                       *)
(***************************************************************************)
Node(class_type, inputs) ==
  Obj(<<P("inputs", Obj(inputs)), P("class_type", Str(class_type))>>)
Hashed(node, key, hash) == Obj(Append(node.v, P(key, hash)))
Edge(id) == Arr(<<Str(id), Whole(0)>>)
TextOf(doc) == JSONstringify(doc).text
SeqsUpTo(S, n) == UNION {[1..k -> S] : k \in 1..n}
\* The graph with nodes under the ids 1, 2, ... and the pairs of tail after them.
GraphOf(nodes, tail) ==
  Obj([i \in 1..Len(nodes) |-> P(NatText(i), nodes[i])] \o tail)
Exif(p, w) == [prompt |-> p, workflow |-> w]

SamplerInputs(positive, negative, latent) ==
  <<P("seed", Whole(42)), P("steps", Whole(20)), P("cfg", Whole(7)),
    P("sampler_name", Str("euler")), P("scheduler", Str("karras")),
    P("denoise", Whole(1)), P("positive", Edge(positive)),
    P("negative", Edge(negative)), P("latent_image", Edge(latent))>>
EmptyLatent ==
  Node("EmptyLatentImage", <<P("width", Whole(512)), P("height", Whole(768))>>)

\* Samplers and what they are wired to.
SamplerPool ==
  {Node("KSampler", SamplerInputs("3", "3", "2")),
   Node("KSampler", SamplerInputs("3", "3", "3")),
   Node("KSampler", SamplerInputs("3", "3", "9")),
   Node("KSamplerAdvanced",
        <<P("steps", Edge("2")), P("cfg", Num(75000)), P("positive", Edge("3")),
          P("negative", Edge("3")), P("latent_image", Edge("3"))>>),
   EmptyLatent,
   Node("CLIPTextEncode", <<P("text", Str("a cat"))>>),
   Node("PrimitiveNode", <<P("Value", Whole(30))>>),
   Obj(<<P("class_type", Str("Note"))>>)}

ExifSampler ==
  {Exif(Str(TextOf(GraphOf(nodes, <<>>))), w) :
     nodes \in SeqsUpTo(SamplerPool, MaxNodes), w \in {Str("{}"), Str("{\"extra\":")}}

Lora(strength, name) ==
  Node("LoraLoader",
       <<P("lora_name", Str(name)), P("strength_model", Num(strength)),
         P("strength_clip", Whole(1))>>)
Checkpoint(name) == Node("CheckpointLoaderSimple", <<P("ckpt_name", Str(name))>>)

\* Loaders: strengths around the threshold, hashes present, empty and missing.
LoaderPool ==
  {Hashed(Lora(0, "l.safetensors"), "lora_hash", Str("a1")),
   Hashed(Lora(5, "m.pt"), "lora_hash", Str("a1")),
   Lora(-5, "l.safetensors"),
   Hashed(Lora(StrengthEps, "dir\\l.safetensors"), "lora_hash", Str("a1")),
   Hashed(Lora(-StrengthEps, "m.pt"), "lora_hash", Str("")),
   Hashed(Lora(5000, "l.safetensors"), "lora_hash", Str("b2")),
   Lora(5000, "m.pt"),
   Hashed(Node("LoraLoader", <<P("lora_name", Str("l.safetensors"))>>), "lora_hash", Str("a1")),
   Checkpoint("sd.safetensors"),
   Hashed(Checkpoint("sd.safetensors"), "ckpt_hash", Str("")),
   Hashed(Checkpoint("dir/name.v2.ckpt"), "ckpt_hash", Str("h1")),
   Hashed(Checkpoint("xl.safetensors"), "ckpt_hash", Str("h2"))}

LoaderTail ==
  <<P("8", Node("KSampler", SamplerInputs("9", "9", "9"))), P("9", EmptyLatent)>>

ExifLoader ==
  {Exif(Str(TextOf(GraphOf(nodes, LoaderTail))), Str("{}")) :
     nodes \in SeqsUpTo(LoaderPool, MaxLoaders)}

\* Conditioning nodes: text, text_g and text_l present, empty, missing, wired.
TextPool ==
  {Node("CLIPTextEncode", <<P("text", Str("a cat"))>>),
   Node("CLIPTextEncode", <<P("text", Str("a cat")), P("text_g", Str("dog"))>>),
   Node("CLIPTextEncode",
        <<P("text", Str("")), P("text_g", Str("dog")), P("text_l", Str("wide shot"))>>),
   Node("CLIPTextEncodeSDXL", <<P("text_g", Str("a cat")), P("text_l", Str("a cat"))>>),
   Node("CLIPTextEncodeSDXL", <<P("text_g", Str("a cat")), P("text_l", Str("wide shot"))>>),
   Node("CLIPTextEncodeSDXL", <<P("text_g", Str("a cat")), P("text_l", Str(""))>>),
   Node("CLIPTextEncodeSDXL", <<P("text_g", Str("a cat"))>>),
   Node("CLIPTextEncodeSDXL", <<P("text_g", Str("")), P("text_l", Str("wide shot"))>>),
   Node("CLIPTextEncode", <<P("text", Edge("2"))>>),
   Node("CLIPTextEncode", <<P("text", Edge("1")), P("text_g", Str("dog"))>>),
   Node("CLIPTextEncode", <<P("text", Whole(5)), P("text_g", Str("dog"))>>),
   Node("ConditioningZeroOut", <<>>),
   Node("ControlNetApply", <<P("conditioning", Edge("2"))>>),
   Node("ControlNetApply", <<P("strength", Whole(1))>>)}

TextTail ==
  <<P("7", Node("KSampler", SamplerInputs("1", "2", "9"))),
    P("8", Checkpoint("sd.safetensors")),
    P("9", EmptyLatent)>>

ExifText ==
  {Exif(Str(TextOf(GraphOf(nodes, TextTail))), Str("{}")) :
     nodes \in SeqsUpTo(TextPool, MaxTexts)}

\* Workflow documents.
BaseDocs ==
  {Null, Bool(FALSE), Bool(TRUE), Whole(0), Num(15000), Str(""), Str("wf"),
   Obj(<<P("ckpt_airs", Arr(<<Str("12@34"), Str("56"), Str("@"), Str("x@7@8")>>)),
         P("lora_airs", Arr(<<>>))>>),
   Obj(<<P("embedding_airs", Whole(5))>>)}
Wrapped(doc) == {Arr(<<doc>>), Obj(<<P("extra", doc)>>), Obj(<<P("b", doc), P("2", Arr(<<>>))>>)}
RECURSIVE Docs(_)
Docs(depth) ==
  IF depth = 0 THEN BaseDocs
  ELSE Docs(depth - 1) \cup UNION {Wrapped(doc) : doc \in Docs(depth - 1)}

WorkflowTexts ==
  {Str(TextOf(doc)) : doc \in Docs(MaxDepth)}
    \cup {Undef, Str(""), Str("{"), Str("[NaN]"), Str(" { \"a\" : 1 , \"a\" : [ ] } ")}

GoodGraph ==
  GraphOf(<<Node("KSampler", SamplerInputs("2", "2", "3")),
            Node("CLIPTextEncode", <<P("text", Str("a cat"))>>),
            EmptyLatent>>, <<>>)

PromptTexts ==
  {Str(TextOf(GoodGraph)),
   Str("{\"2\":{\"inputs\":{\"width\":[NaN],\"a\":[Infinity]},\"class_type\":\"EmptyLatentImage\"},"
       \o "\"1\":{\"inputs\":{\"latent_image\":[\"2\",0],\"positive\":[\"2\",0],"
       \o "\"negative\":[\"2\",0]},\"class_type\":\"KSampler\"}}"),
   Str("{\"1\":{\"inputs\":{\"a\":NaN},\"class_type\":\"KSampler\"}}"),
   Str("{\"1\":{\"inputs\":{\"latent_image\":[\"1\",0]},\"class_type\":\"KSampler\"}}"),
   Str("{\"1\":null}"),
   Str("{\"1\":{\"class_type\":\"Note\"}}"),
   Str(TextOf(GraphOf(<<EmptyLatent, Node("CLIPTextEncode", <<P("text", Str("a cat"))>>)>>,
                      <<>>))),
   Str("{"), Str(""), Str("null"), Str("5"), Str("{}"), Undef}

ExifCodec == {Exif(p, w) : p \in PromptTexts, w \in WorkflowTexts}

\* Prompt texts around the two tokens of cleanBadJson: in list positions and
\* inside strings of a graph, next to each other, inside one another, cut
\* short, in other spellings.
GraphWith(text, width) ==
  "{\"1\":{\"inputs\":{\"latent_image\":[\"3\",0],\"positive\":[\"2\",0],"
    \o "\"negative\":[\"2\",0]},\"class_type\":\"KSampler\"},"
    \o "\"2\":{\"inputs\":{\"text\":\"" \o text \o "\"},\"class_type\":\"CLIPTextEncode\"},"
    \o "\"3\":{\"inputs\":{\"width\":" \o width \o "},\"class_type\":\"EmptyLatentImage\"}}"

TokenTexts ==
  {"", "[]", "[NaN]", "[Infinity]", "[NaN][Infinity]", "[Infinity][NaN]", "[[NaN]]",
   "[[Infinity],[NaN],[NaN]]", "[Na[NaN]N]", "[Infinity[NaN]]", "[Infi[NaN]nity]",
   "[[Infinity]NaN]", "[NaN[Infinity]", "[NaN", "NaN]", "NaN", "Infinity", "[nan]",
   "[ NaN ]", "[-Infinity]", "[NaN,NaN]", "[INFINITY]", "[Infinity ]", "[[]NaN]",
   "[NaN]NaN]", "[[[NaN]", "[Infinit[Infinity]y]"}

SanitizeTexts ==
  TokenTexts
    \cup {GraphWith(t, w) :
            t \in {"a cat", "a [NaN] cat", "[Infinity]", "NaN [Infinity"},
            w \in {"512", "[NaN]", "[Infinity]", "[[NaN],[Infinity]]"}}

ExifSanitize == {Exif(Str(t), Str("{}")) : t \in SanitizeTexts}

\* Model references: with and without directories, separators of both
\* kinds and in runs, no dot, several dots, a dot first or last.
NamePool ==
  {"plain", "model.safetensors", "dir/name.v2.ckpt", "sub/dir/name.v2.ckpt",
   "A\\B\\model.safetensors", "A\\\\B\\\\model.safetensors", "A\\\\\\m.pt",
   "A\\\\\\\\m.pt", "a/b\\c.d/e.f", "dir.v1/name", "dir.v1\\name", "dir/", "dir\\",
   "", ".ckpt", "model.", "a.b.", "a..b", "..", "dir/model.", "x.y\\z.", "\\", "/."}

ExifNames ==
  {Exif(Str(TextOf(GraphOf(<<node>>, LoaderTail))), Str("{}")) :
     node \in {Checkpoint(name) : name \in NamePool}
                \cup {Lora(5000, name) : name \in NamePool}}

\* A pair for a value that is given, none for one that is missing.
Given(k, v) == IF v = Undef THEN <<>> ELSE <<P(k, v)>>

\* Sampler names in and out of the translation table, with and without the
\* _karras ending, and schedulers.
SamplerNames ==
  {Str("euler"), Str("euler_ancestral"), Str("dpmpp_2m"), Str("dpmpp_2m_karras"),
   Str("dpmpp_2m_karras_karras"), Str("uni_pc"), Str("Euler"), Str("DPM++ 2M"), Str(""), Undef}
Schedulers == {Str("karras"), Str("normal"), Str("Karras"), Str("_karras"), Str(""), Undef}

RemapGraph(sampler_name, scheduler) ==
  GraphOf(<<Node("KSampler",
                 <<P("seed", Whole(42)), P("steps", Whole(20)), P("cfg", Whole(7))>>
                   \o Given("sampler_name", sampler_name) \o Given("scheduler", scheduler)
                   \o <<P("denoise", Whole(1)), P("positive", Edge("2")),
                        P("negative", Edge("2")), P("latent_image", Edge("3"))>>),
            Node("CLIPTextEncode", <<P("text", Str("a cat"))>>),
            EmptyLatent>>, <<>>)

ExifRemap ==
  {Exif(Str(TextOf(RemapGraph(n, sch))), Str("{}")) : n \in SamplerNames, sch \in Schedulers}

\* Air identifiers: with and without a version id, with an empty part, with
\* more than one '@', not numeric.
AirPool ==
  {Str("12@34"), Str("56"), Str("@"), Str("x@7@8"), Str("12@@34"), Str("@9"), Str("7@"),
   Str("")}

\* The extra block of a workflow: each list is given or missing.
ExtraDocs ==
  {Obj(<<P("extra", Obj(Given("lora_airs", lora) \o Given("ckpt_airs", ckpt)
                         \o Given("embedding_airs", embedding)))>>) :
     ckpt \in {Undef, Arr(<<>>)} \cup {Arr(airs) : airs \in SeqsUpTo(AirPool, MaxAirs)},
     lora \in {Undef, Arr(<<Str("3@4"), Str("8")>>)},
     embedding \in {Undef, Arr(<<Str("9@"), Str("1@2")>>)}}

ExifExtras == {Exif(Str(TextOf(GoodGraph)), Str(TextOf(doc))) : doc \in ExtraDocs}

\* Nodes of every loader type, with and without the input read, and nodes of
\* other types that carry the same inputs and hashes.
ClassPool ==
  {Hashed(Checkpoint("sd.safetensors"), "ckpt_hash", Str("h1")),
   Checkpoint("dir/name.v2.ckpt"),
   Hashed(Lora(5000, "l.safetensors"), "lora_hash", Str("a1")),
   Hashed(Lora(5, "m.pt"), "lora_hash", Str("b2")),
   Node("UpscaleModelLoader", <<P("model_name", Str("up/4x.v2.pth"))>>),
   Node("VAELoader", <<P("vae_name", Str("vae\\ft.mse.pt"))>>),
   Node("VAELoader", <<>>),
   Node("ControlNetLoader", <<P("control_net_name", Str("canny.safetensors"))>>),
   Hashed(Node("CheckpointLoader", <<P("ckpt_name", Str("xl.safetensors")),
                                     P("model_name", Str("xl"))>>), "ckpt_hash", Str("h2")),
   Hashed(Node("VAELoaderTiled",
               <<P("vae_name", Str("vae.pt")), P("lora_name", Str("m.pt")),
                 P("strength_model", Whole(1)), P("control_net_name", Str("cn"))>>),
          "lora_hash", Str("a1"))}

ExifClass ==
  {Exif(Str(TextOf(GraphOf(nodes, LoaderTail))), Str("{}")) :
     nodes \in SeqsUpTo(ClassPool, MaxLoaders)}

\* KSamplerAdvanced nodes with steps and cfg as literals and wired to a helper
\* node before or after them, a KSampler, and helper nodes.
Advanced(steps, cfg) ==
  Node("KSamplerAdvanced",
       <<P("noise_seed", Whole(42)), P("steps", steps), P("cfg", cfg),
         P("sampler_name", Str("euler")), P("scheduler", Str("normal")),
         P("positive", Edge("3")), P("negative", Edge("3")), P("latent_image", Edge("3"))>>)

CoercePool ==
  {Advanced(Edge("2"), Num(75000)),
   Advanced(Whole(20), Edge("1")),
   Node("KSampler", SamplerInputs("3", "3", "3")),
   Node("PrimitiveNode", <<P("Value", Whole(30))>>),
   EmptyLatent}

ExifCoerce ==
  {Exif(Str(TextOf(GraphOf(nodes, <<>>))), Str("{}")) :
     nodes \in SeqsUpTo(CoercePool, MaxNodes)}

\* Nodes whose inputs are wired to a node instead of holding a literal: the
\* scalar inputs of a sampler, the width and height of its latent image, the
\* text of the node behind a ControlNetApply node, text_g, the strengths of a
\* loader, steps and cfg of a KSamplerAdvanced.
WiredSampler(seed, steps, cfg, name, denoise, positive, negative, latent) ==
  Node("KSampler",
       <<P("seed", seed), P("steps", steps), P("cfg", cfg), P("sampler_name", name),
         P("scheduler", name), P("denoise", denoise), P("positive", Edge(positive)),
         P("negative", Edge(negative)), P("latent_image", Edge(latent))>>)

WiredPool ==
  {WiredSampler(Whole(42), Whole(20), Whole(7), Str("euler"), Whole(1), "8", "8", "9"),
   WiredSampler(Edge("7"), Whole(20), Whole(7), Str("euler"), Whole(1), "8", "8", "9"),
   WiredSampler(Whole(42), Edge("7"), Edge("7"), Str("euler"), Whole(1), "8", "8", "9"),
   WiredSampler(Whole(42), Whole(20), Whole(7), Edge("7"), Edge("7"), "8", "8", "9"),
   WiredSampler(Whole(42), Whole(20), Whole(7), Str("euler"), Whole(1), "8", "8", "10"),
   WiredSampler(Whole(42), Whole(20), Whole(7), Str("euler"), Whole(1), "5", "8", "9"),
   WiredSampler(Whole(42), Whole(20), Whole(7), Str("euler"), Whole(1), "8", "4", "9"),
   Node("LoraLoader",
        <<P("lora_name", Str("l.safetensors")), P("strength_model", Edge("7")),
          P("strength_clip", Edge("7"))>>),
   Advanced(Edge("7"), Edge("7"))}

WiredTail ==
  <<P("4", Node("CLIPTextEncodeSDXL", <<P("text_g", Edge("7"))>>)),
    P("5", Node("ControlNetApply", <<P("conditioning", Edge("6"))>>)),
    P("6", Node("CLIPTextEncode", <<P("text", Edge("8"))>>)),
    P("7", Node("PrimitiveNode", <<P("Value", Whole(30))>>)),
    P("8", Node("CLIPTextEncode", <<P("text", Str("a cat"))>>)),
    P("9", EmptyLatent),
    P("10", Node("EmptyLatentImage", <<P("width", Edge("7")), P("height", Edge("7"))>>))>>

ExifWired ==
  {Exif(Str(TextOf(GraphOf(nodes, WiredTail))), Str("{}")) :
     nodes \in SeqsUpTo(WiredPool, MaxWired)}

\* Nodes wired into cycles and chains: through text, text_g, Value,
\* conditioning and an input no step reads, to themselves, to each other and
\* to the sampler.
CyclePool ==
  {Node("CLIPTextEncode", <<P("text", Str("a cat"))>>),
   Node("CLIPTextEncode", <<P("text", Edge("1"))>>),
   Node("CLIPTextEncode", <<P("text", Edge("2"))>>),
   Node("CLIPTextEncode", <<P("text", Edge("7"))>>),
   Node("CLIPTextEncodeSDXL", <<P("text_g", Edge("1")), P("text_l", Str("wide shot"))>>),
   Node("PrimitiveNode", <<P("Value", Whole(30))>>),
   Node("PrimitiveNode", <<P("Value", Edge("1"))>>),
   Node("ControlNetApply", <<P("conditioning", Edge("2"))>>),
   Node("Reroute", <<P("other", Edge("2"))>>)}

\* A sampler wired to the nodes 1 and 2, and one wired to nodes apart from
\* them.
CycleTails ==
  {<<P("7", Node("KSamplerAdvanced",
                 <<P("noise_seed", Whole(42)), P("steps", Edge("1")), P("cfg", Whole(7)),
                   P("positive", Edge("1")), P("negative", Edge("2")),
                   P("latent_image", Edge("9"))>>)),
     P("9", EmptyLatent)>>,
   <<P("7", Node("KSampler", SamplerInputs("8", "8", "9"))),
     P("8", Node("CLIPTextEncode", <<P("text", Str("a cat"))>>)),
     P("9", EmptyLatent)>>}

ExifCycle ==
  {Exif(Str(TextOf(GraphOf(nodes, tail))), Str("{}")) :
     nodes \in SeqsUpTo(CyclePool, MaxCycle), tail \in CycleTails}

InitSampler == \E e \in ExifSampler : Start(e)
InitCycle == \E e \in ExifCycle : Start(e)
InitWired == \E e \in ExifWired : Start(e)
InitCoerce == \E e \in ExifCoerce : Start(e)
InitClass == \E e \in ExifClass : Start(e)
InitExtras == \E e \in ExifExtras : Start(e)
InitRemap == \E e \in ExifRemap : Start(e)
InitNames == \E e \in ExifNames : Start(e)
InitSanitize == \E e \in ExifSanitize : Start(e)
InitLoader == \E e \in ExifLoader : Start(e)
InitText == \E e \in ExifText : Start(e)
InitCodec == \E e \in ExifCodec : Start(e)

Init == InitSampler \/ InitLoader \/ InitText \/ InitCodec \/ InitSanitize \/ InitNames
          \/ InitRemap \/ InitExtras \/ InitClass \/ InitCoerce \/ InitWired
          \/ InitCycle

\* Graphs of samplers and latent images.
SpecSampler == InitSampler /\ [][Next]_vars
\* Graphs of loaders.
SpecLoader == InitLoader /\ [][Next]_vars
\* Graphs of conditioning nodes.
SpecText == InitText /\ [][Next]_vars
\* Prompt texts and workflow texts of every kind.
SpecCodec == InitCodec /\ [][Next]_vars
\* Prompt texts with and without the tokens cleanBadJson rewrites.
SpecSanitize == InitSanitize /\ [][Next]_vars
\* Graphs of one loader, for every model reference.
SpecNames == InitNames /\ [][Next]_vars
\* Graphs of one sampler, for every sampler name and scheduler.
SpecRemap == InitRemap /\ [][Next]_vars
\* Workflow documents with an extra block of air identifier lists.
SpecExtras == InitExtras /\ [][Next]_vars
\* Graphs of loaders of every type and of nodes of other types.
SpecClass == InitClass /\ [][Next]_vars
\* Graphs of KSamplerAdvanced nodes and the helper nodes they are wired to.
SpecCoerce == InitCoerce /\ [][Next]_vars
\* Graphs with inputs wired to a node where a literal is usual.
SpecWired == InitWired /\ [][Next]_vars
\* Graphs with and without reference cycles.
SpecCycle == InitCycle /\ [][Next]_vars
\* parse has ended.
Ended == pc \in {"done", "encoded"}

\* parse is one synchronous call: once called, it runs each of its steps.
ParseStep ==
  CanParse \/ DecodePrompt \/ SweepNode \/ SelectSampler \/ DecodeWorkflow \/ BuildRecord
\* The graphs of SpecCycle, with parse run to its end: weak fairness of
\* ParseStep, which is enabled exactly as long as parse has not ended; it is
\* written out as the recurrence of its two cases.
FairCycle == InitCycle /\ [][Next]_vars /\ ([]<>Ended \/ []<><<ParseStep>>_vars)
\* All of them.
Spec == Init /\ [][Next]_vars

(***************************************************************************)
(* Properties.                                                             *)
(***************************************************************************)
\* A field of exif that is a non-empty text.
NonEmptyField(f) == f.t = "str" /\ Len(f.v) > 0

\* C10: canParse(exif) is truthy if and only if exif carries both a
\* non-empty prompt field and a non-empty workflow field; it is falsy when
\* either field is missing or empty.
CanParseIffBothFields ==
  pc # "canParse" =>
    ((can.t = "str" /\ can.v # "")
       <=> (NonEmptyField(exif.prompt) /\ NonEmptyField(exif.workflow)))

\* canParse has returned a truthy value for two non-empty fields, and a
\* later step of parse has run on the same input.
CanParseAccepted ==
  /\ pc = "sweep"
  /\ NonEmptyField(exif.prompt) /\ NonEmptyField(exif.workflow)
  /\ can = exif.workflow

\* The payload encode reads: the decoded text, or the object it was given.
Payload(comfy) == IF comfy.t = "str" THEN fromJson(comfy.v).val ELSE comfy

\* The workflow a payload carries; undefined for a payload without
\* properties.
PayloadWorkflow(comfy) ==
  IF Payload(comfy).t # "obj" THEN Undef ELSE GetField(Payload(comfy), "workflow")

\* C9: encode returns the re-serialized workflow whenever the comfy payload
\* (a serialized string or a decoded object) is present and carries a
\* non-null workflow, falsy scalars such as 0, false and the empty string
\* included; in every other case it returns the empty string, without an
\* error.
EncodeNonNullWorkflow ==
  pc = "encoded" =>
    encoded = IF PayloadWorkflow(comfyArg).t \in {"undef", "null"} THEN Str("")
              ELSE Str(JSONstringify(PayloadWorkflow(comfyArg)).text)

\* The payload of the record parse returned, as text or decoded.
EncodedRecord ==
  /\ pc = "encoded"
  /\ result.kind = "record"
  /\ comfyArg \in {result.meta.comfy, fromJson(result.meta.comfy.v).val}

\* C1: for every exif input on which parse returns a record (any JSON
\* workflow document, scalar documents such as 0, false, null or an empty
\* string literal included), encode applied to that record returns a string
\* that decodes to a value structurally equal to the decoded original
\* workflow document.
RoundTrip ==
  EncodedRecord =>
    /\ encoded.t = "str"
    /\ JSONparse(encoded.v).ok
    /\ JSONparse(encoded.v).val = JSONparse(exif.workflow.v).val

\* The round trip of the documents encode does re-serialize.
RoundTripTruthy ==
  (EncodedRecord /\ Truthy(workflow)) =>
    /\ JSONparse(encoded.v).ok
    /\ JSONparse(encoded.v).val = JSONparse(exif.workflow.v).val

\* The decoded graph has no node with type tag KSampler or KSamplerAdvanced.
NoSampler ==
  /\ prompt # Undef
  /\ \A i \in 1..Len(Entries(prompt)) :
       \/ Entries(prompt)[i].v.t # "obj"
       \/ GetField(Entries(prompt)[i].v, "class_type")
            \notin {Str("KSampler"), Str("KSamplerAdvanced")}

\* C3: if the graph contains no node with type tag KSampler or
\* KSamplerAdvanced (the sampler list is empty), parse ends in an error
\* outcome and never returns a record, for every workflow document.
NoSamplerNoRecord ==
  NoSampler =>
    /\ samplerNodes = <<>>
    /\ result.kind # "record"
    /\ Ended => (result.kind = "error" /\ result.meta = Undef)

\* A graph of two nodes, neither a sampler, was swept and its workflow
\* decoded; parse ended in the error of reading the missing sampler.
NoSamplerFailed ==
  /\ NoSampler
  /\ pc = "done"
  /\ Len(order) = 2
  /\ idx = 3
  /\ workflow.t = "obj"
  /\ result = Failed(TypeError)

\* Texts that are not JSON, sanitized or not.
MalformedTexts == {"", "{", "{\"1\":{\"inputs\":{\"a\":NaN},\"class_type\":\"KSampler\"}}"}

\* The prompt text, sanitized, is not JSON.
MalformedPrompt == exif.prompt.t = "str" /\ exif.prompt.v \in MalformedTexts

\* The workflow text is not JSON; it is not sanitized.
MalformedWorkflow ==
  exif.workflow.t = "str" /\ exif.workflow.v \in MalformedTexts \cup {"[NaN]"}

\* The sweep has visited no node and decoded nothing but the prompt.
NothingSwept ==
  /\ idx = 1
  /\ samplerNodes = <<>> /\ models = <<>> /\ additionalResources = <<>>
  /\ workflow = Undef

\* C4 as stated: if the sanitized prompt text or the workflow text fails
\* JSON decoding, parse ends in a decode-error outcome and returns no record.
DecodeErrorOutcome ==
  (Ended /\ exif.prompt.t = "str" /\ (MalformedPrompt \/ MalformedWorkflow))
    => result = Failed(Throw("SyntaxError"))

\* C4, amended: a prompt text that fails JSON decoding ends parse in the
\* decode error before any node is swept.  A workflow text that fails JSON
\* decoding ends parse in an error and without a record; the workflow is
\* decoded only after the sweep and the sampler selection have completed,
\* before any field of the record is built, and its decode error is the
\* outcome whenever those two steps completed without raising.
DecodeErrors ==
  /\ [](MalformedPrompt /\ pc \notin {"canParse", "start"}
          => result = Failed(Throw("SyntaxError")) /\ prompt = Undef /\ NothingSwept)
  /\ [](MalformedWorkflow
          => result.kind # "record" /\ pc # "build" /\ (Ended => result.kind = "error"))
  /\ [](pc = "workflow" => idx > Len(order) /\ result = Running /\ workflow = Undef)
  /\ [][(pc = "workflow" /\ MalformedWorkflow)
          => (pc' = "done" /\ result' = Failed(Throw("SyntaxError")))]_vars
  /\ [][pc' = "workflow" => (pc = "sweep" /\ idx > Len(order))]_vars

\* A malformed workflow text ended parse in its decode error, after a sweep
\* of three nodes and the selection of a sampler.
WorkflowDecodeFailed ==
  /\ MalformedWorkflow
  /\ pc = "done"
  /\ idx = 4
  /\ initialSamplerNode # Undef
  /\ result = Failed(Throw("SyntaxError"))

\* The sweep has completed and the sampler selection has run.
SelectionRan == prompt # Undef /\ idx > Len(order) /\ pc # "sweep"

\* The latent_image of sampler x is a node with type tag EmptyLatentImage.
Qualifies(x) ==
  /\ GetField(x, "latent_image").t \in {"ref", "obj"}
  /\ GetField(Deref(prompt, GetField(x, "latent_image")), "class_type")
       = Str("EmptyLatentImage")

\* The first sampler that qualifies, or the first sampler.
CanonicalSampler ==
  IF \E i \in 1..Len(samplerNodes) : Qualifies(samplerNodes[i])
  THEN samplerNodes[CHOOSE i \in 1..Len(samplerNodes) :
                      /\ Qualifies(samplerNodes[i])
                      /\ \A j \in 1..(i - 1) : ~Qualifies(samplerNodes[j])]
  ELSE samplerNodes[1]

\* C2: for every non-empty sampler list accumulated by the sweep, parse uses
\* the first sampler in traversal order whose latent_image node has type tag
\* EmptyLatentImage, and the first sampler if none qualifies; with two
\* samplers of which only the second qualifies, the second is used whatever
\* the first sampler's latent_image input is.  Stated for the graphs in which
\* the sampler C2 names is wired to positive, negative and latent_image
\* nodes, so that a record can be built from it.
CanonicalSamplerSelected ==
  (/\ SelectionRan
   /\ samplerNodes # <<>>
   /\ \A k \in {"positive", "negative", "latent_image"} :
        GetField(CanonicalSampler, k).t \in {"ref", "obj"})
    => initialSamplerNode = CanonicalSampler

\* The selection where it does what C2 says: the second of two samplers is
\* the one with an EmptyLatentImage and is the one used.
SecondSamplerSelected ==
  /\ SelectionRan
  /\ Len(samplerNodes) = 2
  /\ ~Qualifies(samplerNodes[1])
  /\ Qualifies(samplerNodes[2])
  /\ initialSamplerNode = samplerNodes[2]

\* The selection where it fails: the first of two samplers has no
\* latent_image node, the second has an EmptyLatentImage, and parse ends in
\* a TypeError without selecting either.
SecondSamplerLost ==
  /\ SelectionRan
  /\ Len(samplerNodes) = 2
  /\ GetField(samplerNodes[1], "latent_image") = Undef
  /\ Qualifies(samplerNodes[2])
  /\ initialSamplerNode = Undef
  /\ result = Failed(TypeError)

\* The j-th node of the sweep and its inputs.
SweptNode(j) == GetField(prompt, order[j])
SweptInput(j, k) == GetField(GetField(SweptNode(j), "inputs"), k)
HasType(j, name) ==
  SweptNode(j).t = "obj" /\ GetField(SweptNode(j), "class_type") = Str(name)

\* The j-th node carries a hash under key: a non-empty text.
CarriesHash(j, key) ==
  GetField(SweptNode(j), key).t = "str" /\ GetField(SweptNode(j), key).v # ""

\* -0.001 < strength_model < 0.001
NearZero(j) ==
  /\ SweptInput(j, "strength_model").t = "num"
  /\ -StrengthEps < SweptInput(j, "strength_model").v
  /\ SweptInput(j, "strength_model").v < StrengthEps

\* The base filenames of the model references of the loader graphs.
BaseName(name) ==
  CASE name = "l.safetensors" -> "l"
    [] name = "m.pt" -> "m"
    [] name = "dir\\l.safetensors" -> "l"
    [] name = "sd.safetensors" -> "sd"
    [] name = "dir/name.v2.ckpt" -> "name.v2"
    [] name = "xl.safetensors" -> "xl"

\* The LoraLoader nodes among the first n that are not skipped.
Contributing(n) == {j \in 1..n : HasType(j, "LoraLoader") /\ ~NearZero(j)}

\* The resource reference C6 gives the j-th node.
LoraReference(j) ==
  [name |-> Str(BaseName(SweptInput(j, "lora_name").v)),
   type |-> "lora",
   weight |-> SweptInput(j, "strength_model"),
   weightClip |-> SweptInput(j, "strength_clip"),
   hash |-> IF CarriesHash(j, "lora_hash") THEN GetField(SweptNode(j), "lora_hash")
            ELSE Undef]

RECURSIVE LoraReferences(_)
\* The resource references of the first n nodes, in traversal order.
LoraReferences(n) ==
  IF n = 0 THEN <<>>
  ELSE LoraReferences(n - 1) \o
         (IF n \in Contributing(n) THEN <<LoraReference(n)>> ELSE <<>>)

\* The nodes among the first n that C6 gives an entry under lora:<name>.
HashedAs(n, name) ==
  {j \in Contributing(n) :
     CarriesHash(j, "lora_hash") /\ BaseName(SweptInput(j, "lora_name").v) = name}

IsLoraReference(r) == r.type = "lora"

\* C6: every LoraLoader node whose strength_model s satisfies
\* -0.001 < s < 0.001 contributes no resource reference and no hashes entry;
\* every other LoraLoader node contributes exactly one resource reference
\* {name: base filename of lora_name, type: lora, weight: strength_model,
\* weightClip: strength_clip, hash: lora_hash}, and a hashes entry under key
\* lora:<base filename> exactly when lora_hash is present (a non-empty text;
\* the reference of a node without one has no hash).  Stated of the nodes
\* swept so far, at every point of the sweep.
LoraThreshold ==
  prompt # Undef =>
    /\ SelectSeq(additionalResources, IsLoraReference) = LoraReferences(idx - 1)
    /\ \A name \in {"l", "m"} :
         IF HashedAs(idx - 1, name) = {}
         THEN ~HasKey(hashes.v, "lora:" \o name)
         ELSE GetField(hashes, "lora:" \o name)
                = GetField(SweptNode(CHOOSE j \in HashedAs(idx - 1, name) :
                                       \A i \in HashedAs(idx - 1, name) : i <= j),
                           "lora_hash")
    /\ \A i \in 1..Len(hashes.v) : hashes.v[i].k \in {"lora:l", "lora:m", "model"}

\* The sweep has passed a LoraLoader below the threshold and one above it
\* that carries a hash: one reference and one hashes entry.
LoraSkippedAndKept ==
  /\ pc = "sweep"
  /\ idx = 3
  /\ HasType(1, "LoraLoader") /\ NearZero(1) /\ CarriesHash(1, "lora_hash")
  /\ HasType(2, "LoraLoader") /\ ~NearZero(2) /\ CarriesHash(2, "lora_hash")
  /\ Len(additionalResources) = 1
  /\ Len(hashes.v) = 1

\* The CheckpointLoaderSimple nodes among the first n that carry a hash.
HashedCheckpoints(n) ==
  {j \in 1..n : HasType(j, "CheckpointLoaderSimple") /\ CarriesHash(j, "ckpt_hash")}

\* C7: after the sweep over any sequence of nodes, hashes.model (if present)
\* equals the ckpt_hash of the first CheckpointLoaderSimple node in traversal
\* order that carries a hash; once hashes.model is set, no later
\* CheckpointLoaderSimple node changes it.
ModelHashPrecedence ==
  /\ [](prompt # Undef =>
          IF HashedCheckpoints(idx - 1) = {}
          THEN ~HasKey(hashes.v, "model")
          ELSE GetField(hashes, "model")
                 = GetField(SweptNode(CHOOSE j \in HashedCheckpoints(idx - 1) :
                                        \A i \in HashedCheckpoints(idx - 1) : j <= i),
                            "ckpt_hash"))
  /\ [][HasKey(hashes.v, "model") => GetField(hashes', "model") = GetField(hashes, "model")]_vars

\* Two checkpoints with different hashes were swept and the first one's hash
\* is the model hash.
FirstCheckpointWon ==
  /\ idx = 3
  /\ HashedCheckpoints(2) = {1, 2}
  /\ GetField(SweptNode(1), "ckpt_hash") # GetField(SweptNode(2), "ckpt_hash")
  /\ GetField(hashes, "model") = GetField(SweptNode(1), "ckpt_hash")

\* Input k of node n; undefined for a node without inputs.
InputOf(n, k) ==
  IF n.t = "obj" /\ GetField(n, "inputs").t = "obj"
  THEN GetField(GetField(n, "inputs"), k)
  ELSE Undef

\* A node with a type tag.
TaggedNode(v) == v.t = "ref" /\ GetField(Deref(prompt, v), "class_type") # Undef

\* An input that is present: a non-empty text.
PresentText(v) == v.t = "str" /\ v.v # ""

\* The outcome of a chain of text inputs that never ends.
Overflow == [t |-> "overflow"]

\* Cases (3) and (4) of C8.
DualEncoderText(n) ==
  IF PresentText(InputOf(n, "text_g"))
  THEN IF ~PresentText(InputOf(n, "text_l")) \/ InputOf(n, "text_l") = InputOf(n, "text_g")
       THEN InputOf(n, "text_g")
       ELSE Str(InputOf(n, "text_g").v \o ", " \o InputOf(n, "text_l").v)
  ELSE Str("")

RECURSIVE ExtractedText(_, _, _)
\* The text C8 gives node n; emptyToo: an empty text input is returned as
\* case (1) says.  A chain of more text inputs than the graph has nodes is
\* a cycle.
ExtractedText(n, emptyToo, fuel) ==
  IF InputOf(n, "text").t = "str" /\ (emptyToo \/ InputOf(n, "text").v # "")
  THEN InputOf(n, "text")
  ELSE IF TaggedNode(InputOf(n, "text"))
  THEN IF fuel = 0 THEN Overflow
       ELSE ExtractedText(Deref(prompt, InputOf(n, "text")), emptyToo, fuel - 1)
  ELSE DualEncoderText(n)

\* The conditioning nodes of the sampler parse selected.
Positive == Deref(prompt, GetField(initialSamplerNode, "positive"))
Negative == Deref(prompt, GetField(initialSamplerNode, "negative"))
IsControlNetApply(n) == GetField(n, "class_type") = Str("ControlNetApply")

\* parse returned a record; its prompts are the texts extracted from the
\* conditioning nodes (the prompt of a ControlNetApply node is not).
PromptsExtracted(emptyToo) ==
  (Ended /\ result.kind = "record") =>
    /\ result.meta.negativePrompt = ExtractedText(Negative, emptyToo, Len(order))
    /\ ~IsControlNetApply(Positive) =>
         result.meta.prompt = ExtractedText(Positive, emptyToo, Len(order))

\* C8 as stated: getPromptText returns (1) the node's text input whenever
\* it is a plain string, of any length and whatever text_g/text_l are;
\* (2) the result of recursing into the text input when it is a node with a
\* type tag; (3) otherwise, if text_g is present, text_g alone when text_l is
\* absent or equal to text_g and "text_g, text_l" otherwise; (4) the empty
\* string in all remaining cases.
PromptTextAnyLength == PromptsExtracted(TRUE)

\* What getPromptText does: (1) holds of a non-empty text input only; an
\* empty text input is treated as a missing one and cases (3) and (4)
\* decide.  In case (2) a chain of text inputs that comes back to a node of
\* the chain never returns: parse ends in a RangeError.
PromptTextCases ==
  /\ PromptsExtracted(FALSE)
  /\ (/\ Ended
      /\ initialSamplerNode.t = "obj"
      /\ Positive.t = "obj"
      /\ \/ ExtractedText(Positive, FALSE, Len(order)) = Overflow
         \/ Negative.t = "obj" /\ ExtractedText(Negative, FALSE, Len(order)) = Overflow)
       => result = Failed(Throw("RangeError"))

\* The negative node has an empty text input and a text_g/text_l pair, and
\* the negative prompt is the pair, not the text input.
EmptyTextSkipped ==
  /\ Ended
  /\ result.kind = "record"
  /\ InputOf(Negative, "text") = Str("")
  /\ PresentText(InputOf(Negative, "text_g"))
  /\ result.meta.negativePrompt = DualEncoderText(Negative)
  /\ result.meta.negativePrompt # Str("")

\* The ids of the nodes the inputs of node id are wired to.
WiredTo(id) ==
  {GetField(GetField(prompt, id), "inputs").v[i].v.id :
     i \in {i \in 1..Len(Entries(GetField(GetField(prompt, id), "inputs"))) :
              GetField(GetField(prompt, id), "inputs").v[i].v.t = "ref"}}

RECURSIVE ReachedFrom(_, _)
\* The ids reached from the ids from along at most fuel wires.
ReachedFrom(from, fuel) ==
  IF fuel = 0 THEN from
  ELSE ReachedFrom(from \cup UNION {WiredTo(id) : id \in from}, fuel - 1)

\* The graph is swept, every node of it has an inputs object and no wire
\* leads from a node back to it.
WellFormedGraph ==
  /\ prompt.t = "obj"
  /\ idx > Len(order)
  /\ \A j \in 1..Len(order) :
       SweptNode(j).t = "obj" /\ GetField(SweptNode(j), "inputs").t = "obj"
  /\ \A j \in 1..Len(order) : order[j] \notin ReachedFrom(WiredTo(order[j]), Len(order))

\* The case of C5: the one sampler of the graph has positive, negative and
\* latent_image nodes, no loader carries a hash, the workflow has no extra
\* block, and the conditioning nodes have neither text nor text_g.
OptionalFieldsMissing ==
  /\ Ended
  /\ WellFormedGraph
  /\ Len(samplerNodes) = 1
  /\ \A k \in {"positive", "negative", "latent_image"} :
       GetField(samplerNodes[1], k).t = "ref"
  /\ \A j \in 1..Len(order) :
       /\ ~HasKey(SweptNode(j).v, "ckpt_hash")
       /\ ~HasKey(SweptNode(j).v, "lora_hash")
       /\ HasType(j, "CheckpointLoaderSimple") => SweptInput(j, "ckpt_name").t = "str"
  /\ exif.workflow = Str("{}")
  /\ \A n \in {Deref(prompt, GetField(samplerNodes[1], "positive")),
               Deref(prompt, GetField(samplerNodes[1], "negative"))} :
       InputOf(n, "text") = Undef /\ InputOf(n, "text_g") = Undef

\* parse returned a record with the prompt p, the negative prompt '', an
\* empty hashes map and empty versionIds and modelIds lists.
EmptyRecord(p) ==
  /\ result.kind = "record"
  /\ result.meta.prompt = p
  /\ result.meta.negativePrompt = Str("")
  /\ result.meta.hashes = Obj(<<>>)
  /\ result.meta.versionIds = <<>>
  /\ result.meta.modelIds = <<>>

\* C5 as stated: missing optional fields never make parse fail; in the case
\* of C5 parse returns a record with prompt '' and negativePrompt '', an
\* empty hashes map, and empty versionIds and modelIds lists.
MissingFieldsNeverFail == OptionalFieldsMissing => EmptyRecord(Str(""))

\* C5, amended: in the case of C5, for a graph without cycles in which every
\* node has an inputs object, parse returns that record when the positive
\* node is not a ControlNetApply node.  When it is one, the prompt of the
\* record is the raw text input of the node wired to its conditioning input,
\* undefined when that node has no text; and parse ends in a TypeError when
\* the ControlNetApply node has no conditioning node.
MissingFieldsRecord ==
  OptionalFieldsMissing =>
    IF ~IsControlNetApply(Positive) THEN EmptyRecord(Str(""))
    ELSE IF InputOf(Positive, "conditioning").t = "ref"
    THEN EmptyRecord(InputOf(Deref(prompt, InputOf(Positive, "conditioning")), "text"))
    ELSE result = Failed(TypeError)

\* The case of C5 with a positive node that is not a ControlNetApply node:
\* the record with two empty prompts.
MissingFieldsTolerated ==
  /\ OptionalFieldsMissing
  /\ ~IsControlNetApply(Positive)
  /\ EmptyRecord(Str(""))
  /\ Len(result.meta.models) = 1

\* The places of s where one of the two tokens starts.
TokenAt(s, i) == IsWord(s, i, "[NaN]") \/ IsWord(s, i, "[Infinity]")
HasToken(s) == \E i \in 1..Len(s) : TokenAt(s, i)

\* The first place at i or later where a token starts, or 0.
NextToken(s, i) ==
  IF \E j \in i..Len(s) : TokenAt(s, j)
  THEN CHOOSE j \in i..Len(s) : TokenAt(s, j) /\ \A k \in i..(j - 1) : ~TokenAt(s, k)
  ELSE 0

RECURSIVE TokensReplaced(_, _)
\* s from place i on, read once from left to right: a token becomes [],
\* every other character is copied.
TokensReplaced(s, i) ==
  IF NextToken(s, i) = 0 THEN SubSeq(s, i, Len(s))
  ELSE SubSeq(s, i, NextToken(s, i) - 1) \o "[]"
         \o TokensReplaced(s, NextToken(s, i)
                                 + (IF IsWord(s, NextToken(s, i), "[NaN]") THEN 5 ELSE 10))

\* The four statements of C11 for the text s.
Sanitizes(s) ==
  /\ cleanBadJson(s) = TokensReplaced(s, 1)
  /\ ~HasToken(s) => cleanBadJson(s) = s
  /\ ~HasToken(cleanBadJson(s))
  /\ cleanBadJson(cleanBadJson(s)) = cleanBadJson(s)

\* C11: cleanBadJson replaces every occurrence of the tokens [NaN] and
\* [Infinity] in the prompt text with [] and leaves every other character
\* unchanged; on text containing neither token it is the identity, its
\* output contains neither token, and applying it twice equals applying it
\* once.  What parse decodes is the text so rewritten.
SanitizationReplacesTokens ==
  (exif.prompt.t = "str" /\ pc \notin {"canParse", "start"}) =>
    /\ Sanitizes(exif.prompt.v)
    /\ IF JSONparse(TokensReplaced(exif.prompt.v, 1)).ok
       THEN (pc = "sweep" /\ idx = 1)
              => prompt = JSONparse(TokensReplaced(exif.prompt.v, 1)).val
       ELSE result = Failed(Throw("SyntaxError"))

\* A prompt text with both tokens was sanitized and decoded: the graph has
\* an empty list where each token was.
BothTokensReplaced ==
  /\ pc = "sweep" /\ idx = 1
  /\ Matches(exif.prompt.v, "[NaN]", 1) # {}
  /\ Matches(exif.prompt.v, "[Infinity]", 1) # {}
  /\ prompt.t = "obj"
  /\ GetField(GetField(GetField(prompt, "3"), "inputs"), "width")
       = Arr(<<Arr(<<>>), Arr(<<>>)>>)

\* The places of s that hold a path separator of either kind.
Separators(s) == {i \in 1..Len(s) : Ch(s, i) \in {"/", "\\"}}

\* The final path segment of s: what follows its last separator.
FinalSegment(s) ==
  IF Separators(s) = {} THEN s ELSE SubSeq(s, Last(Separators(s)) + 1, Len(s))

\* s without its last dot and everything after it.
WithoutExtension(s) ==
  IF Positions(s, ".") = {} THEN s ELSE SubSeq(s, 1, Last(Positions(s, ".")) - 1)

\* The model reference of the first node of the graph and the base filename
\* parse recorded for it.
FirstReference ==
  IF HasType(1, "CheckpointLoaderSimple") THEN SweptInput(1, "ckpt_name")
  ELSE SweptInput(1, "lora_name")
FirstBaseName == additionalResources[1].name

\* The first node, a loader, has been swept.
FirstLoaderSwept ==
  /\ prompt # Undef
  /\ idx > 1
  /\ HasType(1, "CheckpointLoaderSimple") \/ HasType(1, "LoraLoader")
  /\ FirstReference.t = "str"
  /\ Len(additionalResources) >= 1

\* C12 as stated: for every model reference string, modelFileName returns
\* the final path segment (after treating every run of backslashes as a
\* path separator equivalent to '/') with only its last extension removed
\* (the last dot and everything after it); dir/name.v2.ckpt gives name.v2,
\* a name without a dot is returned unchanged, and the result never
\* contains '/' or a backslash.
FileNameLastExtension ==
  FirstLoaderSwept =>
    /\ FirstBaseName = Str(WithoutExtension(FinalSegment(FirstReference.v)))
    /\ Separators(FirstBaseName.v) = {}

\* What modelFileName does: the extension is removed when at least one
\* character follows the last dot of the final segment; a segment that ends
\* in a dot is returned whole.
FileNameCases ==
  FirstLoaderSwept =>
    /\ FirstBaseName =
         Str(IF FinalSegment(FirstReference.v) # ""
                /\ Ch(FinalSegment(FirstReference.v), Len(FinalSegment(FirstReference.v))) = "."
             THEN FinalSegment(FirstReference.v)
             ELSE WithoutExtension(FinalSegment(FirstReference.v)))
    /\ Separators(FirstBaseName.v) = {}

\* The reference model. of a checkpoint was recorded with its dot.
TrailingDotKept ==
  /\ FirstLoaderSwept
  /\ FirstReference = Str("model.")
  /\ models = <<Str("model.")>>

\* The keys of the translation table whose value is the text probe.
KeysFor(probe) ==
  {samplerMap[i].key : i \in {j \in 1..Len(samplerMap) : samplerMap[j].value = probe}}

\* The sampler name and the scheduler parse extracted from the sampler.
ExtractedSampler == GetField(initialSamplerNode, "sampler_name")
ExtractedScheduler == GetField(initialSamplerNode, "scheduler")

\* The text of an extracted name, as + '_karras' converts it.
NameText(v) == IF v.t = "str" THEN v.v ELSE "undefined"

\* C13: with the translation table fixed, the record's sampler is (1) the
\* table key whose value is samplerName + '_karras' when scheduler is karras
\* and such a key exists; (2) otherwise the table key whose value is
\* samplerName when such a key exists; (3) otherwise the extracted sampler
\* name unchanged.  When scheduler is not karras the '_karras' probe is
\* never used, and the scheduler field itself is never changed by the remap.
SamplerRemap ==
  (Ended /\ result.kind = "record") =>
    /\ result.meta.scheduler = ExtractedScheduler
    /\ IF ExtractedScheduler = Str("karras")
             /\ KeysFor(NameText(ExtractedSampler) \o "_karras") # {}
       THEN result.meta.sampler.t = "str"
              /\ result.meta.sampler.v \in KeysFor(NameText(ExtractedSampler) \o "_karras")
       ELSE IF ExtractedSampler.t = "str" /\ KeysFor(ExtractedSampler.v) # {}
       THEN result.meta.sampler.t = "str"
              /\ result.meta.sampler.v \in KeysFor(ExtractedSampler.v)
       ELSE result.meta.sampler = ExtractedSampler

\* parse returned a record for dpmpp_2m under karras: its sampler is the key
\* of dpmpp_2m_karras.
KarrasKeyUsed ==
  /\ Ended /\ result.kind = "record"
  /\ ExtractedSampler = Str("dpmpp_2m")
  /\ ExtractedScheduler = Str("karras")
  /\ result.meta.sampler = Str("DPM++ 2M Karras")
  /\ result.meta.scheduler = Str("karras")

\* The entries of the three lists of the extra block, in the order
\* ckpt_airs, lora_airs, embedding_airs; a missing list has none.
ListOf(extra, key) == IF GetField(extra, key).t = "arr" THEN GetField(extra, key).v ELSE <<>>
AirEntries ==
  ListOf(GetField(workflow, "extra"), "ckpt_airs")
    \o ListOf(GetField(workflow, "extra"), "lora_airs")
    \o ListOf(GetField(workflow, "extra"), "embedding_airs")

\* The part of air before its first '@'; all of it when it has none.
BeforeAt(air) ==
  IF Positions(air, "@") = {} THEN air
  ELSE SubSeq(air, 1, (CHOOSE i \in Positions(air, "@") :
                         \A j \in Positions(air, "@") : i <= j) - 1)

\* The part of air after its first '@': all that follows it.
AfterAt(air) ==
  IF Positions(air, "@") = {} THEN ""
  ELSE SubSeq(air, (CHOOSE i \in Positions(air, "@") :
                      \A j \in Positions(air, "@") : i <= j) + 1, Len(air))

\* The version id of air: what follows its first '@', up to the next one;
\* toEnd: all that follows the first '@'.
VersionPart(air, toEnd) == IF toEnd THEN AfterAt(air) ELSE BeforeAt(AfterAt(air))

\* The numbers of the entries of airs that have a version id.
VersionIdsOf(airs, toEnd) ==
  LET versioned == SelectSeq(airs, LAMBDA e : VersionPart(e.v, toEnd) # "")
  IN [i \in 1..Len(versioned) |-> parseInt(VersionPart(versioned[i].v, toEnd))]

\* The numbers of the entries of airs that have a model id and no version id.
ModelIdsOf(airs, toEnd) ==
  LET plain == SelectSeq(airs, LAMBDA e : VersionPart(e.v, toEnd) = "" /\ BeforeAt(e.v) # "")
  IN [i \in 1..Len(plain) |-> parseInt(BeforeAt(plain[i].v))]

\* The extras of a workflow with an extra block have been scanned.
ExtrasScanned ==
  /\ pc \in {"build", "done", "encoded"}
  /\ workflow.t = "obj"
  /\ GetField(workflow, "extra").t = "obj"

\* The two lists scanned are those of the entries, and so are the lists of
\* the record.
ExtrasAre(toEnd) ==
  ExtrasScanned =>
    /\ ids.versionIds = VersionIdsOf(AirEntries, toEnd)
    /\ ids.modelIds = ModelIdsOf(AirEntries, toEnd)
    /\ Len(ids.versionIds) + Len(ids.modelIds) <= Len(AirEntries)
    /\ result.kind = "record" =>
         /\ result.meta.versionIds = ids.versionIds
         /\ result.meta.modelIds = ids.modelIds

\* C14 as stated: for each entry of the lists extra.ckpt_airs,
\* extra.lora_airs, extra.embedding_airs (visited in that key order, entries
\* in list order), the part after the first '@' is appended (as a number) to
\* versionIds when it is non-empty; otherwise the part before '@' is
\* appended to modelIds when it is non-empty.
ExtrasAfterFirstAt == ExtrasAre(TRUE)

\* C14, amended: the version id of an entry is the part between its first
\* '@' and the next '@' (or the end of the entry).  For each entry of the
\* three lists, in key order and list order, the number its version id
\* starts with is appended to versionIds when the version id is non-empty;
\* otherwise the number the part before the first '@' starts with is
\* appended to modelIds when that part is non-empty.  No entry contributes
\* to both lists, |versionIds| + |modelIds| never exceeds the number of
\* entries, and an entry with a version id never adds its model id.
ExtrasSplitAtEach == ExtrasAre(FALSE)

\* The entries 12@34 and 56 were scanned: one version id, one model id.
VersionAndModelId ==
  /\ ExtrasScanned
  /\ pc = "build"
  /\ AirEntries = <<Str("12@34"), Str("56")>>
  /\ ids.versionIds = <<Whole(34)>>
  /\ ids.modelIds = <<Whole(56)>>

\* The entry 12@@34 was scanned: its model id 12 was recorded.
EmptyVersionBeforeAt ==
  /\ ExtrasScanned
  /\ AirEntries = <<Str("12@@34")>>
  /\ ids.versionIds = <<>>
  /\ ids.modelIds = <<Whole(12)>>

\* The graph as decoded, before any edge was resolved.
DecodedGraph == JSONparse(cleanBadJson(exif.prompt.v)).val

\* The inputs of the j-th node as decoded.
DecodedInputs(j) == GetField(GetField(DecodedGraph, order[j]), "inputs")

\* A two-element list whose first element is the id of a node of the graph.
IsEdge(value) ==
  /\ value.t = "arr"
  /\ Len(value.v) = 2
  /\ value.v[1].t \in {"str", "num"}
  /\ HasKey(Entries(DecodedGraph), ToText(value.v[1]))

\* The nodes swept so far that have an inputs object.
SweptWithInputs ==
  {j \in 1..Len(order) : j < idx /\ SweptNode(j).t = "obj" /\ DecodedInputs(j).t = "obj"}

\* C15: edge resolution rewrites an input only when its value is a
\* two-element list whose first element is a node-id present in the graph,
\* replacing it by that target node; every other input value (scalars, lists
\* of other lengths such as the [] left by sanitization, lists whose first
\* element is not a node-id) is left unchanged by the sweep.
OnlyEdgesRewritten ==
  prompt # Undef =>
    \A j \in SweptWithInputs :
      \A i \in 1..Len(DecodedInputs(j).v) :
        SweptInput(j, DecodedInputs(j).v[i].k) =
          IF IsEdge(DecodedInputs(j).v[i].v)
          THEN Ref(ToText(DecodedInputs(j).v[i].v.v[1]))
          ELSE DecodedInputs(j).v[i].v

\* What the sweep does: every list-valued input is rewritten, to the node
\* stored under the text of its first element or to undefined when there is
\* none; the other inputs are left unchanged.
EveryListRewritten ==
  prompt # Undef =>
    \A j \in SweptWithInputs :
      \A i \in 1..Len(DecodedInputs(j).v) :
        SweptInput(j, DecodedInputs(j).v[i].k) =
          IF IsEdge(DecodedInputs(j).v[i].v)
          THEN Ref(ToText(DecodedInputs(j).v[i].v.v[1]))
          ELSE IF DecodedInputs(j).v[i].v.t # "arr" THEN DecodedInputs(j).v[i].v
          ELSE IF Len(DecodedInputs(j).v[i].v.v) > 0
                  /\ DecodedInputs(j).v[i].v.v[1].t \in {"str", "num"}
                  /\ HasKey(Entries(DecodedGraph), ToText(DecodedInputs(j).v[i].v.v[1]))
          THEN Ref(ToText(DecodedInputs(j).v[i].v.v[1]))
          ELSE Undef

\* The width input [] that sanitization left was swept: it is undefined.
EmptyListRewritten ==
  /\ prompt # Undef
  /\ 3 \in SweptWithInputs
  /\ GetField(DecodedInputs(3), "width") = Arr(<<>>)
  /\ HasKey(GetField(SweptNode(3), "inputs").v, "width")
  /\ SweptInput(3, "width") = Undef

\* C16: the hashes map is append-only during one parse: once any key
\* (model or lora:<name>) has been recorded with a value, no later node in
\* the sweep removes that key or changes its value, including when two
\* LoraLoader nodes have the same base filename but different lora_hash
\* values.
HashesAppendOnly ==
  [][\A i \in 1..Len(hashes.v) :
       /\ HasKey(hashes'.v, hashes.v[i].k)
       /\ GetField(hashes', hashes.v[i].k) = hashes.v[i].v]_vars

\* What the sweep keeps: no key is removed, and the value of the key model
\* never changes.
HashesKeysKept ==
  [][/\ \A i \in 1..Len(hashes.v) : HasKey(hashes'.v, hashes.v[i].k)
     /\ HasKey(hashes.v, "model") => GetField(hashes', "model") = GetField(hashes, "model")]_vars

\* Two LoraLoader nodes with the base filename l and different hashes were
\* swept: the entry lora:l holds the hash of the second.
LoraHashOverwritten ==
  /\ idx = 3
  /\ HasType(1, "LoraLoader") /\ HasType(2, "LoraLoader")
  /\ ~NearZero(1) /\ ~NearZero(2)
  /\ CarriesHash(1, "lora_hash") /\ CarriesHash(2, "lora_hash")
  /\ GetField(SweptNode(1), "lora_hash") # GetField(SweptNode(2), "lora_hash")
  /\ hashes = Obj(<<P("lora:l", GetField(SweptNode(2), "lora_hash"))>>)

\* The type of the resource reference of each loader type.
LoaderTypes ==
  << [tag |-> "CheckpointLoaderSimple", type |-> "model"],
     [tag |-> "LoraLoader", type |-> "lora"],
     [tag |-> "UpscaleModelLoader", type |-> "upscaler"],
     [tag |-> "VAELoader", type |-> "vae"],
     [tag |-> "ControlNetLoader", type |-> "controlnet"] >>

\* The j-th node is a loader of the k-th type that is not a skipped LoRA.
LoadsAs(j, k) == HasType(j, LoaderTypes[k].tag) /\ ~(k = 2 /\ NearZero(j))

RECURSIVE ReferenceTypes(_, _)
\* The types of the references of the first n nodes, in traversal order, for
\* the loader types kinds (indices of LoaderTypes).
ReferenceTypes(n, kinds) ==
  IF n = 0 THEN <<>>
  ELSE ReferenceTypes(n - 1, kinds) \o
         (IF \E k \in kinds : LoadsAs(n, k)
          THEN <<LoaderTypes[CHOOSE k \in kinds : LoadsAs(n, k)].type>>
          ELSE <<>>)

\* The types of the resource references recorded so far.
RecordedTypes == [i \in 1..Len(additionalResources) |-> additionalResources[i].type]

\* C17 as stated: additionalResources contains exactly one resource
\* reference per loader node encountered in the sweep
\* (CheckpointLoaderSimple, LoraLoader, UpscaleModelLoader, VAELoader,
\* ControlNetLoader, typed model, lora, upscaler, vae, controlnet
\* respectively), in traversal order, except that LoraLoader nodes with
\* |strength_model| < 0.001 contribute none.
ReferencePerLoader ==
  prompt # Undef =>
    /\ RecordedTypes = ReferenceTypes(idx - 1, 1..5)
    /\ result.kind = "record" => result.meta.additionalResources = additionalResources

\* The reference of a CheckpointLoaderSimple node.
ModelReference(j) ==
  [name |-> Str(BaseName(SweptInput(j, "ckpt_name").v)),
   type |-> "model",
   weight |-> Undef,
   weightClip |-> Undef,
   hash |-> IF CarriesHash(j, "ckpt_hash") THEN GetField(SweptNode(j), "ckpt_hash")
            ELSE Undef]

RECURSIVE ModelAndLoraReferences(_)
\* The references of the CheckpointLoaderSimple and LoraLoader nodes among
\* the first n, in traversal order.
ModelAndLoraReferences(n) ==
  IF n = 0 THEN <<>>
  ELSE ModelAndLoraReferences(n - 1) \o
         (IF LoadsAs(n, 1) THEN <<ModelReference(n)>>
          ELSE IF LoadsAs(n, 2) THEN <<LoraReference(n)>>
          ELSE <<>>)

\* What the sweep records: exactly one resource reference per
\* CheckpointLoaderSimple node (type model) and per LoraLoader node (type
\* lora), in traversal order, except that LoraLoader nodes with
\* |strength_model| < 0.001 contribute none.  UpscaleModelLoader, VAELoader
\* and ControlNetLoader nodes contribute no resource reference.
ReferencePerModelAndLora ==
  prompt # Undef =>
    /\ additionalResources = ModelAndLoraReferences(idx - 1)
    /\ RecordedTypes = ReferenceTypes(idx - 1, 1..2)
    /\ result.kind = "record" => result.meta.additionalResources = additionalResources

\* A checkpoint and an upscaler were swept and parse returned a record with
\* the one reference of the checkpoint.
UpscalerWithoutReference ==
  /\ Ended /\ result.kind = "record"
  /\ HasType(1, "CheckpointLoaderSimple") /\ HasType(2, "UpscaleModelLoader")
  /\ Len(result.meta.upscalers) = 1
  /\ RecordedTypes = <<"model">>

RECURSIVE InputsOfType(_, _, _)
\* The input key of the nodes with type tag tag among the first n, in
\* traversal order.
InputsOfType(n, tag, key) ==
  IF n = 0 THEN <<>>
  ELSE InputsOfType(n - 1, tag, key) \o
         (IF HasType(n, tag) THEN <<SweptInput(n, key)>> ELSE <<>>)

\* The base filenames of the texts names.
BaseNames(names) == [i \in 1..Len(names) |-> Str(BaseName(names[i].v))]

\* The type tags parse classifies.
ClassifiedTags ==
  {"KSamplerAdvanced", "KSampler", "LoraLoader", "CheckpointLoaderSimple",
   "UpscaleModelLoader", "VAELoader", "ControlNetLoader"}

\* The node the sweep visits next has a type tag parse does not classify.
NextIsOther ==
  /\ pc = "sweep"
  /\ idx <= Len(order)
  /\ \A tag \in ClassifiedTags : ~HasType(idx, tag)

\* C18: after the sweep, models holds the base filenames (modelFileName) of
\* all CheckpointLoaderSimple nodes, upscalers the raw unstripped model_name
\* of all UpscaleModelLoader nodes, vaes the vae_name of all VAELoader nodes
\* and controlNets the control_net_name of all ControlNetLoader nodes, each
\* in traversal order; a node with any other type tag adds nothing to these
\* lists, to the sampler list, to the resource references or to hashes.
\* Stated of the nodes swept so far, at every point of the sweep, and of
\* the lists of the record.
ClassificationLists ==
  /\ [](prompt # Undef =>
          /\ models = BaseNames(InputsOfType(idx - 1, "CheckpointLoaderSimple", "ckpt_name"))
          /\ upscalers = InputsOfType(idx - 1, "UpscaleModelLoader", "model_name")
          /\ vaes = InputsOfType(idx - 1, "VAELoader", "vae_name")
          /\ controlNets = InputsOfType(idx - 1, "ControlNetLoader", "control_net_name")
          /\ result.kind = "record" =>
               /\ result.meta.models = models
               /\ result.meta.upscalers = upscalers
               /\ result.meta.vaes = vaes
               /\ result.meta.controlNets = controlNets)
  /\ [][NextIsOther => UNCHANGED lists]_vars

\* An upscaler and a node with the tag VAELoaderTiled were swept: the
\* upscaler's name is recorded as it is, the other node added nothing.
OtherTagIgnored ==
  /\ idx = 3
  /\ HasType(1, "UpscaleModelLoader") /\ HasType(2, "VAELoaderTiled")
  /\ upscalers = <<Str("up/4x.v2.pth")>>
  /\ models = <<>> /\ vaes = <<>> /\ controlNets = <<>>
  /\ samplerNodes = <<>> /\ additionalResources = <<>> /\ hashes = Obj(<<>>)

RECURSIVE SamplersAmong(_)
\* The places of the sampler nodes among the first n nodes, in traversal
\* order.
SamplersAmong(n) ==
  IF n = 0 THEN <<>>
  ELSE SamplersAmong(n - 1) \o
         (IF HasType(n, "KSampler") \/ HasType(n, "KSamplerAdvanced") THEN <<n>> ELSE <<>>)

\* The number C19 gives input key of the j-th node: the literal, or the
\* Value input of the node the input is wired to in the decoded graph.
Coerced(decoded, j, key) ==
  IF GetField(GetField(GetField(decoded, order[j]), "inputs"), key).t = "num"
  THEN GetField(GetField(GetField(decoded, order[j]), "inputs"), key)
  ELSE GetField(GetField(GetField(decoded,
                  ToText(GetField(GetField(GetField(decoded, order[j]), "inputs"), key).v[1])),
                "inputs"), "Value")

\* Input key of the j-th node is a number, or is wired to a helper node
\* whose Value input is a number.
NumericSource(decoded, j, key) ==
  \/ GetField(GetField(GetField(decoded, order[j]), "inputs"), key).t = "num"
  \/ /\ GetField(GetField(GetField(decoded, order[j]), "inputs"), key).t = "arr"
     /\ Len(GetField(GetField(GetField(decoded, order[j]), "inputs"), key).v) = 2
     /\ Coerced(decoded, j, key).t = "num"

\* The m-th entry of the sampler list is what C19 says of the j-th node,
\* and the node's own inputs are the resolved inputs of the decoded graph.
RecordedAs(decoded, m, j) ==
  /\ GetField(SweptNode(j), "inputs")
       = ResolveInputs(decoded, GetField(GetField(decoded, order[j]), "inputs"))
  /\ IF HasType(j, "KSampler") THEN samplerNodes[m] = GetField(SweptNode(j), "inputs")
     ELSE /\ GetField(samplerNodes[m], "steps") = Coerced(decoded, j, "steps")
          /\ GetField(samplerNodes[m], "cfg") = Coerced(decoded, j, "cfg")
          /\ \A key \in {"steps", "cfg"} :
               NumericSource(decoded, j, key) => GetField(samplerNodes[m], key).t = "num"
          /\ \A i \in 1..Len(samplerNodes[m].v) :
               samplerNodes[m].v[i].k \notin {"steps", "cfg"}
                 => samplerNodes[m].v[i] = GetField(SweptNode(j), "inputs").v[i]

\* The statement of C19 for the decoded graph.
CoercedIn(decoded) ==
  /\ Len(samplerNodes) = Len(SamplersAmong(idx - 1))
  /\ \A m \in 1..Len(samplerNodes) : RecordedAs(decoded, m, SamplersAmong(idx - 1)[m])
  /\ result.kind = "record" =>
       /\ result.meta.steps = GetField(initialSamplerNode, "steps")
       /\ result.meta.cfgScale = GetField(initialSamplerNode, "cfg")
       /\ initialSamplerNode \in {samplerNodes[m] : m \in 1..Len(samplerNodes)}

\* C19: for every KSamplerAdvanced node, the steps and cfg recorded in the
\* sampler list are plain numbers - the literal itself when the input is a
\* number, and the Value input of the referenced helper node when the input
\* is wired to a node - so that when such a sampler is canonical the
\* record's steps and cfgScale are numbers; the coercion is applied to a
\* copy and leaves the graph node's own inputs unchanged.  KSampler inputs
\* are recorded without coercion.  The Value input of a helper node is a
\* number; what is recorded for a node without one is its missing Value.
AdvancedCoercion == prompt # Undef => CoercedIn(DecodedGraph)

\* A KSamplerAdvanced node with steps wired to a helper node was canonical:
\* the record has the helper's Value as steps and the literal cfg, and the
\* node's own steps input is still the helper node.
HelperValueRecorded ==
  /\ Ended /\ result.kind = "record"
  /\ HasType(1, "KSamplerAdvanced")
  /\ SweptInput(1, "steps") = Ref("2")
  /\ GetField(Deref(prompt, Ref("2")), "inputs") = Obj(<<P("Value", Whole(30))>>)
  /\ result.meta.steps = Whole(30)
  /\ result.meta.cfgScale = Num(75000)
  /\ initialSamplerNode = samplerNodes[1]

\* parse returned a record with a non-empty models list.
RecordWithModel == Ended /\ result.kind = "record" /\ Len(result.meta.models) > 0

\* C20: stripping the trailing extension from a filename already produced
\* by modelFileName returns it unchanged, so in every returned record with
\* a non-empty models list the compatibility field Model equals models[0]
\* (the first checkpoint's base filename), for every ckpt_name including
\* names with several dots such as name.v2.ckpt.
DoubleStripHarmless == RecordWithModel => result.meta.Model = result.meta.models[1]

\* The record of the checkpoint dir/name.v2.ckpt: models[0] is name.v2 and
\* Model is name.
SecondExtensionStripped ==
  /\ RecordWithModel
  /\ SweptInput(1, "ckpt_name") = Str("dir/name.v2.ckpt")
  /\ result.meta.models = <<Str("name.v2")>>
  /\ result.meta.Model = Str("name")

\* The node wired to the conditioning input of the positive node.
ConditioningNode == Deref(prompt, InputOf(Positive, "conditioning"))

\* C21: when the canonical sampler's positive node has the type tag
\* ControlNetApply, the prompt of the record is exactly the raw text input of
\* the node its conditioning input refers to, read without recursion and
\* without the text_g/text_l fallback; when the positive node has any other
\* type tag the prompt is the result of getPromptText on it.  The negative
\* prompt is the result of getPromptText in both cases.
ControlNetOverride ==
  (Ended /\ result.kind = "record") =>
    /\ result.meta.prompt =
         IF IsControlNetApply(Positive) THEN InputOf(ConditioningNode, "text")
         ELSE ExtractedText(Positive, FALSE, Len(order))
    /\ result.meta.negativePrompt = ExtractedText(Negative, FALSE, Len(order))

\* The positive node is a ControlNetApply node whose conditioning node is
\* also the negative node; that node has an empty text and a text_g/text_l
\* pair: the prompt is the empty text, the negative prompt is the pair.
RawTextOverrides ==
  /\ Ended
  /\ result.kind = "record"
  /\ IsControlNetApply(Positive)
  /\ ConditioningNode = Negative
  /\ InputOf(Negative, "text") = Str("")
  /\ result.meta.prompt = Str("")
  /\ result.meta.negativePrompt = Str("dog, wide shot")

\* A value that is no object: a primitive, or a field never assigned.
Scalar(v) == v.t \in {"undef", "null", "nan", "bool", "num", "str", "absent"}

\* The fields of the record that C22 names.
ScalarFields(meta) ==
  {meta.prompt, meta.negativePrompt, meta.cfgScale, meta.steps, meta.seed, meta.sampler,
   meta.scheduler, meta.denoise, meta.width, meta.height}

\* The weight fields of the resource references of the record.
WeightFields(meta) ==
  UNION {{meta.additionalResources[i].weight, meta.additionalResources[i].weightClip} :
           i \in 1..Len(meta.additionalResources)}

\* C22: in every record returned by parse no field other than the comfy
\* payload holds a reference to a graph node: prompt, negativePrompt,
\* cfgScale, steps, seed, sampler, scheduler, denoise, width, height and the
\* weight fields of the resource references are scalars (or absent), also
\* when the input they are read from was wired to another node by an edge.
NoGraphReference ==
  (Ended /\ result.kind = "record") =>
    \A v \in ScalarFields(result.meta) \cup WeightFields(result.meta) : Scalar(v)

\* What the record holds: the scalar fields are the inputs of the canonical
\* sampler as the sweep left them, a reference to a node where the input was
\* an edge.
RecordCopiesInputs ==
  (Ended /\ result.kind = "record") =>
    /\ result.meta.cfgScale = GetField(initialSamplerNode, "cfg")
    /\ result.meta.steps = GetField(initialSamplerNode, "steps")
    /\ result.meta.seed = GetField(initialSamplerNode, "seed")
    /\ result.meta.scheduler = GetField(initialSamplerNode, "scheduler")
    /\ result.meta.denoise = GetField(initialSamplerNode, "denoise")
    /\ result.meta.sampler.t = GetField(initialSamplerNode, "sampler_name").t

\* The seed of the canonical sampler is wired to node 7: the seed of the
\* returned record is that node.
SeedHoldsNode ==
  /\ Ended
  /\ result.kind = "record"
  /\ GetField(DecodedInputs(1), "seed") = Edge("7")
  /\ initialSamplerNode = GetField(SweptNode(1), "inputs")
  /\ result.meta.seed = Ref("7")
  /\ result.meta.comfy.t = "str"

\* parse has just returned a record.
RecordReturned == pc = "done" /\ result.kind = "record"

\* The two components of the decoded comfy field of the record.
ComfyPrompt == GetField(fromJson(result.meta.comfy.v).val, "prompt")
ComfyWorkflow == GetField(fromJson(result.meta.comfy.v).val, "workflow")

\* The pairs of ps whose value is not undefined.
DefinedPairs(ps) == SelectSeq(ps, LAMBDA p : p.v # Undef)

RECURSIVE Inlined(_)
\* The document a value of the swept graph reads as: a reference is the node
\* it points to, written out in place.
Inlined(v) ==
  CASE v.t = "ref" -> Inlined(GetField(prompt, v.id))
    [] v.t = "obj" -> Obj(DefinedPairs([i \in 1..Len(v.v) |-> P(v.v[i].k, Inlined(v.v[i].v))]))
    [] v.t = "arr" -> Arr([i \in 1..Len(v.v) |->
                            IF Inlined(v.v[i]) = Undef THEN Null ELSE Inlined(v.v[i])])
    [] OTHER -> v

\* C23: the comfy field of the record is a serialized copy of the original
\* prompt and workflow pair: decoding it yields a pair whose prompt component
\* equals the decoded (sanitized) prompt document given to parse, edge
\* inputs still in their [sourceNodeId, outputSlot] form, and whose workflow
\* component equals the decoded workflow document.
ComfyIsOriginalPair ==
  RecordReturned =>
    /\ ComfyPrompt = DecodedGraph
    /\ ComfyWorkflow = JSONparse(exif.workflow.v).val

\* What the comfy field holds: the workflow document, and the graph as the
\* sweep left it, each edge input replaced by a copy of the node it named.
ComfyIsResolvedPair ==
  RecordReturned =>
    /\ ComfyPrompt = Inlined(prompt)
    /\ ComfyWorkflow = JSONparse(exif.workflow.v).val

\* The latent_image input of the sampler was the edge to node 3; in the
\* decoded comfy field it is the EmptyLatentImage node itself, and the
\* workflow component is the decoded workflow.
EdgeSerializedAsNode ==
  /\ RecordReturned
  /\ GetField(DecodedInputs(1), "latent_image") = Edge("3")
  /\ InputOf(GetField(ComfyPrompt, "1"), "latent_image") = EmptyLatent
  /\ ComfyWorkflow = JSONparse(exif.workflow.v).val
  /\ ComfyWorkflow.t = "obj"

\* The node ids the array-valued inputs of node id name in the graph g.
EdgesOf(g, id) ==
  LET inputs == Entries(GetField(GetField(g, id), "inputs"))
  IN {ToText(IF inputs[i].v.v = <<>> THEN Undef ELSE inputs[i].v.v[1]) :
        i \in {i \in 1..Len(inputs) : inputs[i].v.t = "arr"}}
       \cap {Entries(g)[j].k : j \in 1..Len(Entries(g))}

RECURSIVE Closure(_, _, _)
\* The ids reached from the ids from along at most fuel edges of g.
Closure(g, from, fuel) ==
  IF fuel = 0 THEN from
  ELSE Closure(g, from \cup UNION {EdgesOf(g, id) : id \in from}, fuel - 1)

\* The graph g has a reference cycle: a node reached from itself.
HasCycle(g) ==
  \E j \in 1..Len(Entries(g)) :
    Entries(g)[j].k \in Closure(g, EdgesOf(g, Entries(g)[j].k), Len(Entries(g)))

\* The node the text input of node id is wired to.
TextTarget(id) ==
  IF InputOf(GetField(prompt, id), "text").t = "ref"
  THEN {InputOf(GetField(prompt, id), "text").id}
  ELSE {}

RECURSIVE TextChain(_, _)
\* The ids reached from the ids from along at most fuel text inputs.
TextChain(from, fuel) ==
  IF fuel = 0 THEN from
  ELSE TextChain(from \cup UNION {TextTarget(id) : id \in from}, fuel - 1)

\* The ids of the positive and the negative node of the canonical sampler.
ConditioningIds ==
  {GetField(initialSamplerNode, k).id :
     k \in {k \in {"positive", "negative"} : GetField(initialSamplerNode, k).t = "ref"}}

\* The chain of text inputs from the positive or the negative node comes back
\* to one of its nodes.
TextChainCycle ==
  \E id \in TextChain(ConditioningIds, Len(order)) :
    id \in TextChain(TextTarget(id), Len(order))

\* parse ended in a recursion without end (the call stack overflowed).
Unbounded == Ended /\ result.name = "RangeError"

\* C24: parse terminates, with a record or with an error, and on a graph
\* whose edges form no cycle it does so without unbounded recursion:
\* unbounded recursion arises only when the chain of text inputs that prompt
\* extraction follows from the canonical sampler's positive or negative node
\* contains a cycle; the numeric coercion helper reads Value once and never
\* recurses.
ParseTerminates ==
  /\ <>Ended
  /\ [](Unbounded => (TextChainCycle /\ HasCycle(DecodedGraph)))

\* Node 1 is a helper whose Value is wired to node 1 itself and the steps of
\* the sampler are wired to it: the coercion read Value once, the sampler
\* was recorded, and parse ended without unbounded recursion.
ValueCycleReadOnce ==
  /\ Ended
  /\ ~Unbounded
  /\ HasCycle(DecodedGraph)
  /\ SweptInput(1, "Value") = Ref("1")
  /\ Len(samplerNodes) = 1
  /\ GetField(samplerNodes[1], "steps") = Ref("1")
  /\ GetField(samplerNodes[1], "positive") = Ref("1")

\* C25: if the graph has a reference cycle among its edges (a node reached
\* from itself through array-valued inputs that name existing node ids),
\* whether or not the cycle lies on a text chain or is reached from the
\* canonical sampler, parse never returns a record: it ends in an error,
\* because the graph resolved in place is serialized into the comfy payload.
CycleNeverRecord ==
  (Ended /\ HasCycle(DecodedGraph)) =>
    /\ result.kind = "error"
    /\ result.name \in {"TypeError", "RangeError"}

\* The nodes 1 and 2 are wired to each other, the sampler is wired to neither
\* and its text chains have no cycle: the sweep, the selection and the
\* workflow went through, and parse ended in the TypeError of the payload.
CycleApartFails ==
  /\ Ended
  /\ HasCycle(DecodedGraph)
  /\ "2" \in EdgesOf(DecodedGraph, "1") /\ "1" \in EdgesOf(DecodedGraph, "2")
  /\ ConditioningIds = {"8"}
  /\ ~TextChainCycle
  /\ workflow = Obj(<<>>)
  /\ result = Failed(TypeError)

\* The CheckpointLoaderSimple nodes of the graph, by their place in the
\* traversal.
Checkpoints == {j \in 1..Len(order) : HasType(j, "CheckpointLoaderSimple")}
FirstCheckpoint == CHOOSE j \in Checkpoints : \A i \in Checkpoints : j <= i

\* The ckpt_hash of the j-th node, undefined for a missing or an empty one.
CheckpointHash(j) ==
  IF CarriesHash(j, "ckpt_hash") THEN GetField(SweptNode(j), "ckpt_hash") ELSE Undef

\* C26: in every record returned by parse, Model and Model hash are present
\* exactly when the graph has at least one CheckpointLoaderSimple node, and
\* then describe the first such node in traversal order (Model is derived
\* from its ckpt_name: the base filename less one more extension; Model hash
\* is its ckpt_hash, undefined without one).  Whenever Model hash has a
\* value, hashes.model has the same value; hashes.model is present while
\* Model hash has none only when the first CheckpointLoaderSimple carries no
\* ckpt_hash and a later one does.
ModelFieldsFromFirstCheckpoint ==
  (Ended /\ result.kind = "record") =>
    /\ IF Checkpoints = {}
       THEN result.meta.Model = Absent /\ result.meta.ModelHash = Absent
       ELSE /\ result.meta.Model =
                 Str(WithoutExtension(BaseName(SweptInput(FirstCheckpoint, "ckpt_name").v)))
            /\ result.meta.models[1] =
                 Str(BaseName(SweptInput(FirstCheckpoint, "ckpt_name").v))
            /\ result.meta.ModelHash = CheckpointHash(FirstCheckpoint)
    /\ result.meta.ModelHash.t = "str" =>
         GetField(result.meta.hashes, "model") = result.meta.ModelHash
    /\ (HasKey(result.meta.hashes.v, "model") /\ result.meta.ModelHash.t # "str") =>
         /\ Checkpoints # {}
         /\ CheckpointHash(FirstCheckpoint) = Undef
         /\ \E j \in Checkpoints : j > FirstCheckpoint /\ CheckpointHash(j) # Undef

\* The first checkpoint carries no hash and the second one does: Model hash
\* is present without a value while hashes.model is the second one's hash.
ModelHashOfLaterCheckpoint ==
  /\ Ended
  /\ result.kind = "record"
  /\ Checkpoints = {1, 2}
  /\ CheckpointHash(1) = Undef
  /\ CheckpointHash(2) = Str("h2")
  /\ result.meta.Model = Str("sd")
  /\ result.meta.ModelHash = Undef
  /\ GetField(result.meta.hashes, "model") = Str("h2")

====
